---- MODULE Spec2Model ----
(***************************************************************************)
(* A model of the base LLM contract (llama_index/core/llms/llm.py) and of  *)
(* the GoogleGenAI adapter (llama_index/llms/google_genai/base.py).        *)
(*                                                                         *)
(* The specifications of the module, one per component:                    *)
(*   SpecStream  the streaming accumulators of _stream_chat/_astream_chat  *)
(*   SpecLLM     LLM.predict / apredict / stream / astream                 *)
(*   SpecCall    LLM.predict_and_call / apredict_and_call                  *)
(*   SpecStruct  GoogleGenAI.structured_predict / astructured_predict and  *)
(*               their streaming forms                                     *)
(*   SpecStructLive  the same, a native stream being consumed to its end   *)
(*   SpecTools   _prepare_chat_with_tools, get_tool_calls_from_response    *)
(*               and ToolSelection                                         *)
(*   SpecChat    GoogleGenAI.chat / achat under the retry decorator and    *)
(*               the heads of stream_chat / astream_chat                   *)
(*   SpecAdapter every operation that reads the stored generation config   *)
(* Python text is modelled by TLA+ strings (\o is concatenation) and the   *)
(* Python value None by the string None, which is no text of the model.    *)
(***************************************************************************)
EXTENDS Integers, Sequences, FiniteSets, TLC

VARIABLES
  \* ---- streaming accumulators, one record field per stream ----
  st_pc,                \* stream -> "idle" | "open" | "done" | "failed"
  st_kind,              \* stream -> "none" | "sync" | "async" (which gen() runs)
  content,              \* stream -> gen()'s local `content`
  thoughts,             \* stream -> gen()'s local `thoughts`
  existing_tool_calls,  \* stream -> gen()'s local list `existing_tool_calls`
  emitted,              \* stream -> the responses yielded so far, as seen at the yield
  received,             \* stream -> the backend fragments the loop has taken so far
  \* ---- LLM.predict / apredict / stream / astream, one call at a time ----
  llm_cfg,              \* the LLM as constructed: output_parser set?, metadata.is_chat_model,
                        \* system_prompt
  llm_pc,               \* "idle" | "started" | "called" | "returned" | "raised"
  llm_op,               \* "none" | "predict" | "apredict" | "stream" | "astream"
  llm_prompt_parser,    \* prompt.output_parser is not None, for the call in progress
  llm_log,              \* what the call has done so far, in order: events and calls
  llm_response,         \* what the primitive returned: message.content / text
  llm_parse_exc,        \* the exception output_parser.parse raised in this call
  llm_result,           \* what the caller gets: a value, a token sequence or an exception
  llm_tokens,           \* the tokens the consumer has pulled from the returned sequence
  llm_rendered,         \* what prompt.format_messages rendered for the call in progress
  llm_messages,         \* the messages handed to the chat primitive
  \* ---- LLM.predict_and_call / apredict_and_call, one call at a time ----
  pac_pc,               \* "idle" | "built" | "stepped" | "returned" | "raised"
  pac_op,               \* "none" | "predict_and_call" | "apredict_and_call"
  pac_selections,       \* resp.tool_calls of the decision step, by tool name
  pac_executed,         \* the selections handed to call_tool_with_selection, in order
  pac_tool_outputs,     \* the local list `tool_outputs`
  pac_failure,          \* where the call first failed, and with what
  pac_result,           \* what the caller gets: an AgentChatResponse or an exception
  \* ---- GoogleGenAI structured predict, the four operations ----
  sp_cfg,               \* the adapter as constructed: pydantic_program_mode, max_retries,
                        \* and the stored _generation_config
  stored_generation_config,  \* self._generation_config as it is now
  sp_pc,                \* "idle" | "sent" | "generic" | "returned" | "raised", and for
                        \* the streaming operations "gen_native" | "chunks" |
                        \* "gen_generic" | "partials" | "done"
  sp_op,                \* "none" | "structured_predict" | "astructured_predict" |
                        \* "stream_structured_predict" | "astream_structured_predict"
  sp_output_cls,        \* the requested output class
  sp_log,               \* what the call has done so far, in order: events and calls
  sp_sent_config,       \* the `config` of the last generate_content request
  sp_parsed,            \* response.parsed of the last backend response
  sp_result,            \* what the caller gets: an object, a generator or an exception
  sp_chunks,            \* what the running generator has taken from its source so far
  sp_current_json,      \* the native generator's local `current_json`
  sp_yielded,           \* what the generator has yielded to its consumer so far
  \* ---- tool preparation, tool-call extraction, ToolSelection ----
  chat_history,         \* the list the caller holds and passes as chat_history
  tl_pc,                \* "idle" | "returned" | "raised"
  tl_op,                \* "none" | the operation of the call just made
  tl_log,               \* what the call did, in order: conversions, the append
  prep_args,            \* the arguments of the _prepare_chat_with_tools call
  prep_result,          \* the dict it returned, or the exception it raised
  sel_args,             \* the arguments of the get_tool_calls_from_response call
  sel_result,           \* the selections it returned, or the exception it raised
  ts_result,            \* a constructed ToolSelection and its dump-and-load copy
  \* ---- GoogleGenAI.chat / achat / stream_chat / astream_chat, one call at a time ----
  ch_pc,                \* "idle" | "attempting" | "returned" | "raised"
  ch_op,                \* "none" | "chat" | "achat" | "stream_chat" | "astream_chat"
  ch_overrides,         \* kwargs["generation_config"] of the call
  ch_attempts,          \* the runs of the method body so far: config sent, outcome
  ch_log,               \* what the call has done so far, in order
  ch_result             \* what the caller gets: a response, a generator or an exception

stream_vars == <<st_pc, st_kind, content, thoughts, existing_tool_calls, emitted, received>>

llm_vars == <<llm_cfg, llm_pc, llm_op, llm_prompt_parser, llm_log, llm_response,
              llm_parse_exc, llm_result, llm_tokens, llm_rendered, llm_messages>>

pac_vars == <<pac_pc, pac_op, pac_selections, pac_executed, pac_tool_outputs,
              pac_failure, pac_result>>

\* The state of the structured-predict call in progress.
sp_call_vars == <<sp_cfg, sp_pc, sp_op, sp_output_cls, sp_log, sp_sent_config, sp_parsed,
                  sp_result, sp_chunks, sp_current_json, sp_yielded>>

sp_vars == <<sp_call_vars, stored_generation_config>>

tools_vars == <<chat_history, tl_pc, tl_op, tl_log, prep_args, prep_result, sel_args,
                sel_result, ts_result>>

ch_vars == <<ch_pc, ch_op, ch_overrides, ch_attempts, ch_log, ch_result>>

vars == <<stream_vars, llm_vars, pac_vars, sp_vars, tools_vars, ch_vars>>

\* What an action of one component leaves alone: the other components.
StreamFrame == UNCHANGED <<llm_vars, pac_vars, sp_vars, tools_vars, ch_vars>>

LLMFrame == UNCHANGED <<stream_vars, pac_vars, sp_vars, tools_vars, ch_vars>>

CallFrame == UNCHANGED <<stream_vars, llm_vars, sp_vars, tools_vars, ch_vars>>

StructFrame == UNCHANGED <<stream_vars, llm_vars, pac_vars, tools_vars, ch_vars>>

ToolsFrame == UNCHANGED <<stream_vars, llm_vars, pac_vars, sp_vars, ch_vars>>

\* What an operation of the adapter leaves alone, whichever call state it writes.
AdapterFrame == UNCHANGED <<stream_vars, llm_vars, pac_vars, tools_vars>>

None == "None"

\* Python truthiness of an Optional[str]: None and "" are falsy.
Truthy(text) == text # None /\ text # ""

\* `x or ""`
OrEmpty(text) == IF text = None THEN "" ELSE text

\* An exception by its type and message; NoExc where none was raised.
Exc(type, msg) == [type |-> type, msg |-> msg]

NoExc == Exc("none", "")

\* What a call hands its caller.
NoResult == [kind |-> "none", val |-> None, exc |-> NoExc]

Returned(v) == [kind |-> "value", val |-> v, exc |-> NoExc]

Raised(e) == [kind |-> "error", val |-> None, exc |-> e]

\* A chat message by role and content.
ChatMessage(role, text) == [role |-> role, content |-> text]

(***************************************************************************)
(* Streaming accumulator                                                   *)
(***************************************************************************)
Streams == {1, 2}

\* Total number of backend fragments delivered, over all streams.
MaxFragments == 3

\* A backend fragment (GenerateContentResponse) by the shape the loop tests:
\*   no_candidates  r.candidates is None or empty
\*   no_content     a top candidate whose content is None
\*   no_parts       a top candidate whose content.parts is None or empty
\*   parts          parts[0] carries text (or None), the thought flag, and the
\*                  fragment declares the function calls `calls`
Frag(shape, text, thought, calls) ==
  [shape |-> shape, text |-> text, thought |-> thought, calls |-> calls]

Fragments ==
  { Frag("no_candidates", None, FALSE, <<>>),
    Frag("no_content", None, FALSE, <<>>),
    Frag("no_parts", None, FALSE, <<>>),
    Frag("parts", None, FALSE, <<>>),
    Frag("parts", "", FALSE, <<>>),
    Frag("parts", "a", FALSE, <<>>),
    Frag("parts", "b", FALSE, <<>>),
    Frag("parts", "t", TRUE, <<>>),
    Frag("parts", None, FALSE, <<"f">>),
    Frag("parts", None, FALSE, <<"g", "f">>),
    Frag("parts", "b", FALSE, <<"f">>) }

\* chat_from_gemini_response(r).message.additional_kwargs.get("tool_calls", []):
\* the tool-call records the fragment declares.
FragmentToolCalls(r) == r.calls

\* A slip that adds every text to content, thought or not.
AccumulateContentWithThoughts(c, r) ==
  IF Truthy(r.text) THEN c \o r.text ELSE c

\* if content_delta: if parts[0].thought: thoughts += content_delta
\*                   else: content += content_delta
AccumulateContent(c, r) ==
  IF Truthy(r.text) /\ ~r.thought THEN c \o r.text ELSE c

AccumulateThoughts(t, r) ==
  IF Truthy(r.text) /\ r.thought THEN t \o r.text ELSE t

\* A slip that assigns the fragment's tool calls instead of extending the list.
ExtendToolCallsReplacing(existing, new) == new

\* existing_tool_calls.extend(...)
ExtendToolCalls(existing, new) == existing \o new

\* llama_resp.delta = content_delta
ResponseDelta(r) == r.text

\* A slip that keeps the accumulators on the adapter instance, where the
\* stream opened first on it writes them.
SnapshotOfInstance(s, r) ==
  [ delta      |-> ResponseDelta(r),
    content    |-> AccumulateContent(content[1], r),
    thoughts   |-> AccumulateThoughts(thoughts[1], r),
    tool_calls |-> ExtendToolCalls(existing_tool_calls[1], FragmentToolCalls(r)) ]

\* The response yielded for fragment r of stream s, read at the yield.
Snapshot(s, r) ==
  [ delta      |-> ResponseDelta(r),
    content    |-> AccumulateContent(content[s], r),
    thoughts   |-> AccumulateThoughts(thoughts[s], r),
    tool_calls |-> ExtendToolCalls(existing_tool_calls[s], FragmentToolCalls(r)) ]

\* additional_kwargs["tool_calls"] of the k-th response of stream s, read now:
\* every response of a stream is handed the list object existing_tool_calls
\* itself, which later iterations extend in place.
HeldToolCalls(s, k) == existing_tool_calls[s]

Delivered == Len(received[1]) + Len(received[2])

IdleStream ==
  /\ st_pc = [s \in Streams |-> "idle"]
  /\ st_kind = [s \in Streams |-> "none"]
  /\ content = [s \in Streams |-> ""]
  /\ thoughts = [s \in Streams |-> ""]
  /\ existing_tool_calls = [s \in Streams |-> <<>>]
  /\ emitted = [s \in Streams |-> <<>>]
  /\ received = [s \in Streams |-> <<>>]

\* _stream_chat / _astream_chat up to `return gen()`: a fresh generator whose
\* locals start at content = "", existing_tool_calls = [], thoughts = "".
OpenStream(s, kind) ==
  /\ st_pc[s] = "idle"
  /\ st_pc' = [st_pc EXCEPT ![s] = "open"]
  /\ st_kind' = [st_kind EXCEPT ![s] = kind]
  /\ content' = [content EXCEPT ![s] = ""]
  /\ thoughts' = [thoughts EXCEPT ![s] = ""]
  /\ existing_tool_calls' = [existing_tool_calls EXCEPT ![s] = <<>>]
  /\ emitted' = [emitted EXCEPT ![s] = <<>>]
  /\ received' = [received EXCEPT ![s] = <<>>]
  /\ StreamFrame

StreamChat(s) == OpenStream(s, "sync")

AStreamChat(s) == OpenStream(s, "async")

\* The loop body from the accumulation to the yield.
Emit(s, r) ==
  /\ content' = [content EXCEPT ![s] = AccumulateContent(content[s], r)]
  /\ thoughts' = [thoughts EXCEPT ![s] = AccumulateThoughts(thoughts[s], r)]
  /\ existing_tool_calls' =
       [existing_tool_calls EXCEPT ![s] = ExtendToolCalls(existing_tool_calls[s], FragmentToolCalls(r))]
  /\ emitted' = [emitted EXCEPT ![s] = Append(emitted[s], Snapshot(s, r))]
  /\ UNCHANGED <<st_pc, st_kind>>

\* `continue`, or falling through the nested ifs: nothing changes but the position.
Skip(s) ==
  UNCHANGED <<st_pc, st_kind, content, thoughts, existing_tool_calls, emitted>>

\* An exception leaves gen(): the stream ends with it.
Fail(s) ==
  /\ st_pc' = [st_pc EXCEPT ![s] = "failed"]
  /\ UNCHANGED <<st_kind, content, thoughts, existing_tool_calls, emitted>>

\* One iteration of `for r in response:` in _stream_chat.gen.  Only
\* `not r.candidates` is tested: top_candidate.content.parts[0] raises when
\* content is None (AttributeError) or parts is None/empty (TypeError/IndexError).
SyncGenStep(s) ==
  /\ st_pc[s] = "open" /\ st_kind[s] = "sync"
  /\ Delivered < MaxFragments
  /\ \E r \in Fragments :
       /\ received' = [received EXCEPT ![s] = Append(received[s], r)]
       /\ IF r.shape = "no_candidates" THEN Skip(s)
          ELSE IF r.shape \in {"no_content", "no_parts"} THEN Fail(s)
          ELSE Emit(s, r)
  /\ StreamFrame

\* One iteration of `async for r in ...` in _astream_chat.gen: the nested
\* walrus tests skip a fragment without candidates, content or parts.
AsyncGenStep(s) ==
  /\ st_pc[s] = "open" /\ st_kind[s] = "async"
  /\ Delivered < MaxFragments
  /\ \E r \in Fragments :
       /\ received' = [received EXCEPT ![s] = Append(received[s], r)]
       /\ IF r.shape \in {"no_candidates", "no_content", "no_parts"} THEN Skip(s)
          ELSE Emit(s, r)
  /\ StreamFrame

\* The backend's fragment sequence is exhausted: the loop and gen() end.
StreamEnd(s) ==
  /\ st_pc[s] = "open"
  /\ st_pc' = [st_pc EXCEPT ![s] = "done"]
  /\ UNCHANGED <<st_kind, content, thoughts, existing_tool_calls, emitted, received>>
  /\ StreamFrame

NextStream ==
  \E s \in Streams :
    \/ StreamChat(s)
    \/ AStreamChat(s)
    \/ SyncGenStep(s)
    \/ AsyncGenStep(s)
    \/ StreamEnd(s)

(***************************************************************************)
(* LLM.predict / apredict / stream / astream                               *)
(***************************************************************************)
\* The longest token sequence a consumer pulls from one stream.
MaxTokens == 2

\* message.content of a chat response (Optional[str]) and text of a completion.
ChatContents == {None, "", "x", "y"}

CompletionTexts == {"", "x", "y"}

\* What output_parser.parse may hand back (its str()), and what it may raise.
ParsedTexts == {"x", "p"}

ParseFailures == {Exc("ValidationError", "m1"), Exc("ValidationError", "m2")}

BackendFailures == {Exc("BackendError", "e1")}

\* A raw delta of a streamed response.
Deltas == {None, "", "a"}

\* The adapter's primitives, and the transport calls the GoogleGenAI
\* primitives make before they return (_stream_chat: chats.create and
\* send_message_stream; _astream_chat: aio.chats.create, send_message_stream
\* being deferred to the first pull of its gen()).
ChatPrimitives == {"chat", "achat"}

CompletionPrimitives == {"complete", "acomplete"}

StreamPrimitives == {"stream_chat", "astream_chat", "stream_complete", "astream_complete"}

TransportCalls == {"chats.create", "send_message_stream"}

IsAsync(op) == op \in {"apredict", "astream"}

\* self.system_prompt (Optional[str]): unset, empty or a text.
SystemPrompts == {None, "", "sys"}

\* What prompt.format_messages renders: a PromptTemplate gives one user
\* message, a ChatPromptTemplate one message per message template, none for
\* an empty list of templates.
Renderings ==
  { <<>>,
    <<ChatMessage("user", "q")>>,
    <<ChatMessage("system", "s0"), ChatMessage("user", "q")>>,
    <<ChatMessage("user", "q"), ChatMessage("assistant", "r")>> }

\* output_parser.format: the format instructions follow the text.
ParserFormat(text) == text \o "#"

\* output_parser.format_messages(messages): the format is applied to the
\* first message when it is a system message, else to the last one; an empty
\* list stays empty.
FormatMessages(messages) ==
  IF messages = <<>> THEN messages
  ELSE LET i == IF messages[1].role = "system" THEN 1 ELSE Len(messages)
       IN  [messages EXCEPT ![i] = ChatMessage(messages[i].role, ParserFormat(messages[i].content))]

\* _extend_messages: if self.system_prompt: [ChatMessage(SYSTEM, ...), *messages]
ExtendMessages(system_prompt, messages) ==
  IF Truthy(system_prompt) THEN <<ChatMessage("system", system_prompt)>> \o messages
  ELSE messages

\* _get_messages: render, format with the LLM's output parser, extend.
GetMessages(cfg, rendered) ==
  ExtendMessages(cfg.system_prompt,
                 IF cfg.output_parser THEN FormatMessages(rendered) ELSE rendered)

\* `messages = self._get_messages(prompt, **prompt_args)` in the chat branch
\* of predict / apredict / stream / astream; the completion branch builds no
\* message list.
MessagesBuilt(is_chat) ==
  IF is_chat
  THEN \E rendered \in Renderings :
         /\ llm_rendered' = rendered
         /\ llm_messages' = GetMessages(llm_cfg, rendered)
  ELSE UNCHANGED <<llm_rendered, llm_messages>>

IdleLLM ==
  /\ llm_cfg = [output_parser |-> FALSE, is_chat_model |-> TRUE, system_prompt |-> None]
  /\ llm_pc = "idle"
  /\ llm_op = "none"
  /\ llm_prompt_parser = FALSE
  /\ llm_log = <<>>
  /\ llm_response = None
  /\ llm_parse_exc = NoExc
  /\ llm_result = NoResult
  /\ llm_tokens = <<>>
  /\ llm_rendered = <<>>
  /\ llm_messages = <<>>

\* The LLM after construction: with or without an output parser, over a chat
\* or a completion model.
InitLLM ==
  /\ llm_cfg \in [output_parser : BOOLEAN, is_chat_model : BOOLEAN,
                  system_prompt : SystemPrompts]
  /\ llm_pc = "idle"
  /\ llm_op = "none"
  /\ llm_prompt_parser = FALSE
  /\ llm_log = <<>>
  /\ llm_response = None
  /\ llm_parse_exc = NoExc
  /\ llm_result = NoResult
  /\ llm_tokens = <<>>
  /\ llm_rendered = <<>>
  /\ llm_messages = <<>>

\* The head of the four operations: predict/apredict dispatch the start event
\* and then log the template, stream/astream the other way round.
LLMBegin(op, prompt_parser) ==
  /\ llm_pc \in {"idle", "returned", "raised"}
  /\ llm_pc' = "started"
  /\ llm_op' = op
  /\ llm_prompt_parser' = prompt_parser
  /\ llm_log' = IF op \in {"predict", "apredict"}
                THEN <<"LLMPredictStartEvent", "templating">>
                ELSE <<"templating", "LLMPredictStartEvent">>
  /\ llm_response' = None
  /\ llm_parse_exc' = NoExc
  /\ llm_result' = NoResult
  /\ llm_tokens' = <<>>
  /\ llm_rendered' = <<>>
  /\ llm_messages' = <<>>
  /\ UNCHANGED llm_cfg
  /\ LLMFrame

Predict == \E pp \in BOOLEAN : LLMBegin("predict", pp)

APredict == \E pp \in BOOLEAN : LLMBegin("apredict", pp)

Stream == \E pp \in BOOLEAN : LLMBegin("stream", pp)

AStream == \E pp \in BOOLEAN : LLMBegin("astream", pp)

\* A slip that drops the `or ""`.
ChatOutputRaw(c) == c

\* output = chat_response.message.content or ""
ChatOutput(c) == OrEmpty(c)

\* if self.metadata.is_chat_model: ... self.chat(messages) else: ... self.complete(...)
PredictPrimitive(op, is_chat) ==
  IF is_chat THEN (IF IsAsync(op) THEN "achat" ELSE "chat")
  ELSE (IF IsAsync(op) THEN "acomplete" ELSE "complete")

\* predict/apredict: the chat or completion call.  The primitive returns a
\* response or raises; an exception leaves predict as it is.
PredictCall ==
  /\ llm_pc = "started" /\ llm_op \in {"predict", "apredict"}
  /\ LET prim == PredictPrimitive(llm_op, llm_cfg.is_chat_model) IN
     /\ llm_log' = Append(llm_log, prim)
     /\ MessagesBuilt(prim \in ChatPrimitives)
     /\ \/ \E e \in BackendFailures :
             /\ llm_pc' = "raised"
             /\ llm_result' = Raised(e)
             /\ UNCHANGED llm_response
        \/ \E c \in (IF prim \in ChatPrimitives THEN ChatContents ELSE CompletionTexts) :
             /\ llm_pc' = "called"
             /\ llm_response' = c
             /\ UNCHANGED llm_result
  /\ UNCHANGED <<llm_cfg, llm_op, llm_prompt_parser, llm_parse_exc, llm_tokens>>
  /\ LLMFrame

\* `output` of predict/apredict, from the response the primitive returned.
PredictOutput ==
  IF llm_log[Len(llm_log)] \in ChatPrimitives THEN ChatOutput(llm_response) ELSE llm_response

\* A slip that catches the parser's failure and returns an empty text.
ParseFailureSwallowed(e) == Returned("")

\* What reaches the caller when output_parser.parse raises e: _parse_output
\* and predict catch nothing.
ParseFailureOutcome(e) == Raised(e)

\* parsed_output = self._parse_output(output); the end event; return.
PredictParse ==
  /\ llm_pc = "called" /\ llm_op \in {"predict", "apredict"}
  /\ IF llm_cfg.output_parser
     THEN \/ \E e \in ParseFailures :
               /\ llm_parse_exc' = e
               /\ llm_result' = ParseFailureOutcome(e)
               /\ llm_pc' = IF ParseFailureOutcome(e).kind = "error" THEN "raised" ELSE "returned"
               /\ llm_log' = IF ParseFailureOutcome(e).kind = "error" THEN llm_log
                             ELSE Append(llm_log, "LLMPredictEndEvent")
          \/ \E v \in ParsedTexts :
               /\ llm_result' = Returned(v)
               /\ llm_pc' = "returned"
               /\ llm_log' = Append(llm_log, "LLMPredictEndEvent")
               /\ UNCHANGED llm_parse_exc
     ELSE /\ llm_result' = Returned(PredictOutput)
          /\ llm_pc' = "returned"
          /\ llm_log' = Append(llm_log, "LLMPredictEndEvent")
          /\ UNCHANGED llm_parse_exc
  /\ UNCHANGED <<llm_cfg, llm_op, llm_prompt_parser, llm_response, llm_tokens>>
  /\ UNCHANGED <<llm_rendered, llm_messages>>
  /\ LLMFrame

\* What the streaming primitive of the adapter does before it returns its
\* generator: on a chat model the GoogleGenAI primitive creates the chat and,
\* in the sync variant, calls send_message_stream.
StreamPrimitiveCalls(op, is_chat) ==
  IF is_chat
  THEN (IF IsAsync(op) THEN <<"astream_chat", "chats.create">>
        ELSE <<"stream_chat", "chats.create", "send_message_stream">>)
  ELSE (IF IsAsync(op) THEN <<"astream_complete">> ELSE <<"stream_complete">>)

\* stream/astream: the streaming primitive is called and the token generator
\* is built around what it returns.
StreamCall ==
  /\ llm_pc = "started" /\ llm_op \in {"stream", "astream"}
  /\ llm_log' = llm_log \o StreamPrimitiveCalls(llm_op, llm_cfg.is_chat_model)
  /\ llm_pc' = "called"
  /\ MessagesBuilt(llm_cfg.is_chat_model)
  /\ UNCHANGED <<llm_cfg, llm_op, llm_prompt_parser, llm_response, llm_parse_exc,
                 llm_result, llm_tokens>>
  /\ LLMFrame

\* A slip that tests only self.output_parser.
ParserConfiguredOnLLMOnly(prompt_parser, llm_parser) == llm_parser

\* if prompt.output_parser is not None or self.output_parser is not None
ParserConfigured(prompt_parser, llm_parser) == prompt_parser \/ llm_parser

\* stream/astream: the output-parser test, then `return stream_tokens`.
StreamCheck ==
  /\ llm_pc = "called" /\ llm_op \in {"stream", "astream"}
  /\ IF ParserConfigured(llm_prompt_parser, llm_cfg.output_parser)
     THEN /\ llm_pc' = "raised"
          /\ llm_result' = Raised(Exc("NotImplementedError",
                                      "Output parser is not supported for streaming."))
     ELSE /\ llm_pc' = "returned"
          /\ llm_result' = [kind |-> "tokens", val |-> None, exc |-> NoExc]
  /\ UNCHANGED <<llm_cfg, llm_op, llm_prompt_parser, llm_log, llm_response,
                 llm_parse_exc, llm_tokens, llm_rendered, llm_messages>>
  /\ LLMFrame

\* One pull of the returned token sequence: `yield response.delta or ""`.
\* The first pull of an astream over a chat model runs send_message_stream.
ConsumeToken ==
  /\ llm_pc = "returned" /\ llm_result.kind = "tokens"
  /\ Len(llm_tokens) < MaxTokens
  /\ \E d \in Deltas : llm_tokens' = Append(llm_tokens, OrEmpty(d))
  /\ llm_log' = IF llm_op = "astream" /\ llm_cfg.is_chat_model /\ llm_tokens = <<>>
                THEN Append(llm_log, "send_message_stream") ELSE llm_log
  /\ UNCHANGED <<llm_cfg, llm_pc, llm_op, llm_prompt_parser, llm_response,
                 llm_parse_exc, llm_result, llm_rendered, llm_messages>>
  /\ LLMFrame

NextLLM ==
  \/ Predict
  \/ APredict
  \/ Stream
  \/ AStream
  \/ PredictCall
  \/ PredictParse
  \/ StreamCall
  \/ StreamCheck
  \/ ConsumeToken

(***************************************************************************)
(* LLM.predict_and_call / apredict_and_call                                *)
(***************************************************************************)
\* The most tool selections one decision step returns.
MaxSelections == 2

ToolNames == {"t1", "t2"}

\* ToolOutput.content of an executed tool.
ToolContents == {"A", "B"}

\* What a collaborator (ReActAgent, Memory, Context, take_step, the tool
\* executor) may raise: an Exception, or a BaseException that is none
\* (KeyboardInterrupt, asyncio.CancelledError).
CallFailures == {Exc("ValueError", "m1"), Exc("CancelledError", "")}

\* isinstance(e, Exception): what `except Exception` catches.
IsException(e) == e.type = "ValueError"

ErrorPrefix == "An error occurred while running the tool: "

\* AgentChatResponse(response=..., sources=...)
AgentChatResponse(response, sources) ==
  [kind |-> "response", response |-> response, sources |-> sources]

NoFailure == [stage |-> "none", exc |-> NoExc]

RECURSIVE Join(_, _)
\* sep.join(texts), built as Python does: texts[0] sep texts[1] sep ...
Join(texts, sep) ==
  IF texts = <<>> THEN ""
  ELSE IF Len(texts) = 1 THEN texts[1]
  ELSE texts[1] \o sep \o Join(Tail(texts), sep)

\* A slip that joins with a single newline.
OutputTextSingleNewline(outputs) ==
  Join([i \in 1..Len(outputs) |-> outputs[i].content], "\n")

\* "\n\n".join([tool_output.content for tool_output in tool_outputs])
OutputText(outputs) ==
  Join([i \in 1..Len(outputs) |-> outputs[i].content], "\n\n")

\* A slip that reports the outputs gathered before the failure.
ErrorResponseKeepingSources(e, outputs) ==
  AgentChatResponse(ErrorPrefix \o e.msg, outputs)

\* AgentChatResponse(response="An error occurred ..." + str(e), sources=[])
ErrorResponse(e, outputs) == AgentChatResponse(ErrorPrefix \o e.msg, <<>>)

IdleCall ==
  /\ pac_pc = "idle"
  /\ pac_op = "none"
  /\ pac_selections = <<>>
  /\ pac_executed = <<>>
  /\ pac_tool_outputs = <<>>
  /\ pac_failure = NoFailure
  /\ pac_result = NoResult

\* Everything before the try: ReActAgent(...), Memory.from_defaults(), the
\* user message, llm_input, Context(agent).  A collaborator that raises here
\* raises out of the call.
PACBegin(op) ==
  /\ pac_pc \in {"idle", "returned", "raised"}
  /\ pac_op' = op
  /\ pac_selections' = <<>>
  /\ pac_executed' = <<>>
  /\ pac_tool_outputs' = <<>>
  /\ \/ /\ pac_pc' = "built"
        /\ pac_failure' = NoFailure
        /\ pac_result' = NoResult
     \/ \E stage \in {"agent", "memory", "context"}, e \in CallFailures :
          /\ pac_pc' = "raised"
          /\ pac_failure' = [stage |-> stage, exc |-> e]
          /\ pac_result' = Raised(e)
  /\ CallFrame

PredictAndCall == PACBegin("predict_and_call")

APredictAndCall == PACBegin("apredict_and_call")

\* An exception e raised inside the try block, at `stage`: `except Exception`
\* turns an Exception into the error response, anything else leaves the call.
FailInTry(stage, e) ==
  /\ pac_failure' = [stage |-> stage, exc |-> e]
  /\ IF IsException(e)
     THEN /\ pac_pc' = "returned"
          /\ pac_result' = ErrorResponse(e, pac_tool_outputs)
     ELSE /\ pac_pc' = "raised"
          /\ pac_result' = Raised(e)

\* resp = agent.take_step(...); tool_outputs = []
PACTakeStep ==
  /\ pac_pc = "built"
  /\ \/ \E e \in CallFailures :
          /\ FailInTry("step", e)
          /\ UNCHANGED pac_selections
     \/ \E n \in 0..MaxSelections : \E sel \in [1..n -> ToolNames] :
          /\ pac_selections' = sel
          /\ pac_pc' = "stepped"
          /\ UNCHANGED <<pac_failure, pac_result>>
  /\ UNCHANGED <<pac_op, pac_executed, pac_tool_outputs>>
  /\ CallFrame

\* One iteration of `for tool_call in resp.tool_calls`.
PACCallTool ==
  /\ pac_pc = "stepped"
  /\ Len(pac_executed) < Len(pac_selections)
  /\ LET tool_call == pac_selections[Len(pac_executed) + 1] IN
     /\ pac_executed' = Append(pac_executed, tool_call)
     /\ \/ \E e \in CallFailures :
             /\ FailInTry("tool", e)
             /\ UNCHANGED pac_tool_outputs
        \/ \E c \in ToolContents :
             /\ pac_tool_outputs' =
                  Append(pac_tool_outputs, [tool |-> tool_call, content |-> c])
             /\ UNCHANGED <<pac_pc, pac_failure, pac_result>>
  /\ UNCHANGED <<pac_op, pac_selections>>
  /\ CallFrame

\* The loop is over: join the contents and return the response.
PACReturn ==
  /\ pac_pc = "stepped"
  /\ Len(pac_executed) = Len(pac_selections)
  /\ pac_pc' = "returned"
  /\ pac_result' = AgentChatResponse(OutputText(pac_tool_outputs), pac_tool_outputs)
  /\ UNCHANGED <<pac_op, pac_selections, pac_executed, pac_tool_outputs, pac_failure>>
  /\ CallFrame

NextCall ==
  \/ PredictAndCall
  \/ APredictAndCall
  \/ PACTakeStep
  \/ PACCallTool
  \/ PACReturn

(***************************************************************************)
(* GoogleGenAI.structured_predict / astructured_predict and their          *)
(* streaming forms stream_structured_predict / astream_structured_predict  *)
(***************************************************************************)
\* The most retries an adapter is configured with.
MaxRetries == 2

\* PydanticProgramMode: DEFAULT selects the native strategy.
ProgramModes == {"DEFAULT", "LLM", "FUNCTION"}

\* The pydantic classes a caller may ask for.
OutputClasses == {"Out", "Other"}

\* response.parsed: None, a value that is no pydantic model (a dict, an
\* enum), or an instance of a pydantic class.
NoParsed == [kind |-> "none", cls |-> ""]

Instance(cls) == [kind |-> "model", cls |-> cls]

ParsedValues ==
  {NoParsed, [kind |-> "dict", cls |-> ""]} \cup {Instance(c) : c \in OutputClasses}

\* A generation config is a mapping from knob to value; a call may override.
StoredConfigs == {[temperature |-> "0.1"]}

Overrides == {<<>>, [temperature |-> "0.9"], [max_output_tokens |-> "8"]}

\* {**a, **b}: a new mapping, b winning key by key.
Merge(a, b) ==
  [k \in (DOMAIN a) \cup (DOMAIN b) |-> IF k \in DOMAIN b THEN b[k] ELSE a[k]]

\* generation_config = {**self._generation_config, **overrides};
\* generation_config["response_mime_type"] = "application/json";
\* generation_config["response_schema"] = output_cls
NativeConfig(stored, overrides, output_cls) ==
  Merge(Merge(stored, overrides),
        [response_mime_type |-> "application/json", response_schema |-> output_cls])

\* A slip that merges into the stored dict instead of building a new one.
StoredConfigMergedInPlace(stored, merged) == merged

\* The stored config after a call that built `merged`: the merge is a new
\* dict and self._generation_config is not assigned to.
StoredConfigAfterCall(stored, merged) == stored

\* isinstance(response.parsed, BaseModel)
IsBaseModel(parsed) == parsed.kind = "model"

SPNoResult == [kind |-> "none", val |-> NoParsed, exc |-> NoExc]

SPReturned(v) == [kind |-> "value", val |-> v, exc |-> NoExc]

SPRaised(e) == [kind |-> "error", val |-> NoParsed, exc |-> e]

MismatchError == Exc("ValueError", "Response is not a BaseModel")

SPStream == [kind |-> "stream", val |-> NoParsed, exc |-> NoExc]

StructuredOps ==
  {"structured_predict", "astructured_predict",
   "stream_structured_predict", "astream_structured_predict"}

StreamingStructuredOps == {"stream_structured_predict", "astream_structured_predict"}

\* The backend requests that carry the response schema.
GenerateCalls ==
  {"models.generate_content", "aio.models.generate_content",
   "models.generate_content_stream", "aio.models.generate_content_stream"}

\* How many generate_content requests the log holds.
CountNative(log) == Cardinality({i \in 1..Len(log) : log[i] \in GenerateCalls})

GenerateCall(op) ==
  IF op = "astructured_predict" THEN "aio.models.generate_content"
  ELSE "models.generate_content"

GenerateStreamCall(op) ==
  IF op = "astream_structured_predict" THEN "aio.models.generate_content_stream"
  ELSE "models.generate_content_stream"

\* The most chunks or partial objects one generator takes from its source.
MaxChunks == 2

\* A chunk of generate_content_stream: chunk.parsed, whether chunk.candidates
\* is non-empty, the text of the top candidate's first part, and whether the
\* json gathered so far, this text included, decodes against the schema.
Chunk(parsed, candidates, text, decodes) ==
  [parsed |-> parsed, candidates |-> candidates, text |-> text, decodes |-> decodes]

Chunks ==
  { Chunk(Instance("Out"), TRUE, "", FALSE),
    Chunk(NoParsed, FALSE, "", FALSE),
    Chunk(NoParsed, TRUE, "", FALSE),
    Chunk(NoParsed, TRUE, "{", FALSE),
    Chunk(NoParsed, TRUE, "{", TRUE),
    Chunk(NoParsed, TRUE, "}", TRUE) }

\* `if chunk.parsed`
ParsedTruthy(chunk) == chunk.parsed # NoParsed

Flexible(cls) == [kind |-> "flexible", cls |-> cls]

\* handle_streaming_flexible_model(current_json, candidate, output_cls,
\* flexible_model): the part's text is added to the json; the result is the
\* partial object decoded from it, or None where there is no text or no decode.
HandleStreamingFlexibleModel(current_json, chunk, output_cls) ==
  [ streaming_model |-> IF chunk.text # "" /\ chunk.decodes THEN Flexible(output_cls)
                        ELSE NoParsed,
    current_json    |-> current_json \o chunk.text ]

\* A slip that treats a chunk that is neither parsed nor decodable as an error.
NativeChunkStepStrict(current_json, chunk, output_cls) ==
  IF ParsedTruthy(chunk)
  THEN [yields |-> <<chunk.parsed>>, current_json |-> current_json, exc |-> NoExc]
  ELSE LET h == HandleStreamingFlexibleModel(current_json, chunk, output_cls)
       IN  IF chunk.candidates /\ h.streaming_model # NoParsed
           THEN [yields |-> <<h.streaming_model>>, current_json |-> h.current_json, exc |-> NoExc]
           ELSE [yields |-> <<>>, current_json |-> current_json,
                 exc |-> Exc("ValueError", "chunk not decodable")]

\* The body of `for chunk in response_gen`: what it yields, the json it
\* leaves in current_json, and the exception it ends with, if any.  A truthy
\* chunk.parsed is yielded; else with candidates the flexible decode is tried
\* and its object, if any, yielded; else the chunk is passed over.
NativeChunkStep(current_json, chunk, output_cls) ==
  IF ParsedTruthy(chunk)
  THEN [yields |-> <<chunk.parsed>>, current_json |-> current_json, exc |-> NoExc]
  ELSE IF chunk.candidates
  THEN LET h == HandleStreamingFlexibleModel(current_json, chunk, output_cls)
       IN  [yields |-> IF h.streaming_model # NoParsed THEN <<h.streaming_model>> ELSE <<>>,
            current_json |-> h.current_json, exc |-> NoExc]
  ELSE [yields |-> <<>>, current_json |-> current_json, exc |-> NoExc]

\* The partial objects the generic program streams.
Partials == {Flexible("Out"), Instance("Out")}

UnboundLocal == Exc("UnboundLocalError", "r")

IdleStruct ==
  /\ sp_cfg = [mode |-> "DEFAULT", max_retries |-> 0, generation_config |-> [temperature |-> "0.1"]]
  /\ stored_generation_config = sp_cfg.generation_config
  /\ sp_pc = "idle"
  /\ sp_op = "none"
  /\ sp_output_cls = "Out"
  /\ sp_log = <<>>
  /\ sp_sent_config = <<>>
  /\ sp_parsed = NoParsed
  /\ sp_result = SPNoResult
  /\ sp_chunks = <<>>
  /\ sp_current_json = ""
  /\ sp_yielded = <<>>

\* The adapter after construction.
InitStruct ==
  /\ sp_cfg \in [mode : ProgramModes, max_retries : 0..MaxRetries,
                 generation_config : StoredConfigs]
  /\ stored_generation_config = sp_cfg.generation_config
  /\ sp_pc = "idle"
  /\ sp_op = "none"
  /\ sp_output_cls = "Out"
  /\ sp_log = <<>>
  /\ sp_sent_config = <<>>
  /\ sp_parsed = NoParsed
  /\ sp_result = SPNoResult
  /\ sp_chunks = <<>>
  /\ sp_current_json = ""
  /\ sp_yielded = <<>>

\* Calls on the adapter are made one after the other: a call begins when
\* no other is running, and the record of the call before it is dropped.
ChatRecordDropped ==
  /\ ch_pc' = "idle"
  /\ ch_op' = "none"
  /\ ch_overrides' = <<>>
  /\ ch_attempts' = <<>>
  /\ ch_log' = <<>>
  /\ ch_result' = NoResult

\* The head of structured_predict / astructured_predict.  In DEFAULT mode the
\* config is merged, the messages are formatted and generate_content is
\* called; otherwise the call goes to super().structured_predict, in both
\* operations, whose first act is the start event.
SPBegin(op, output_cls, overrides) ==
  /\ sp_pc \in {"idle", "returned", "raised", "done"}
  /\ sp_chunks' = <<>>
  /\ sp_current_json' = ""
  /\ sp_yielded' = <<>>
  /\ sp_op' = op
  /\ sp_output_cls' = output_cls
  /\ sp_parsed' = NoParsed
  /\ sp_result' = SPNoResult
  /\ IF sp_cfg.mode = "DEFAULT"
     THEN /\ sp_pc' = "sent"
          /\ sp_sent_config' = NativeConfig(stored_generation_config, overrides, output_cls)
          /\ sp_log' = <<GenerateCall(op)>>
          /\ stored_generation_config' =
               StoredConfigAfterCall(stored_generation_config,
                                     NativeConfig(stored_generation_config, overrides, output_cls))
     ELSE /\ sp_pc' = "generic"
          /\ sp_sent_config' = <<>>
          /\ sp_log' = <<"LLM.structured_predict", "LLMStructuredPredictStartEvent">>
          /\ UNCHANGED stored_generation_config
  /\ UNCHANGED sp_cfg
  /\ ch_pc # "attempting"
  /\ ChatRecordDropped
  /\ AdapterFrame

StructuredPredict ==
  \E c \in OutputClasses, o \in Overrides : SPBegin("structured_predict", c, o)

AStructuredPredict ==
  \E c \in OutputClasses, o \in Overrides : SPBegin("astructured_predict", c, o)

\* generate_content answers or raises.  The method carries no retry
\* decorator and no try: a backend exception leaves the call, and the
\* isinstance test decides between `return response.parsed` and the
\* mismatch error.
SPRespond ==
  /\ sp_pc = "sent"
  /\ \/ \E e \in BackendFailures :
          /\ sp_pc' = "raised"
          /\ sp_result' = SPRaised(e)
          /\ UNCHANGED sp_parsed
     \/ \E parsed \in ParsedValues :
          /\ sp_parsed' = parsed
          /\ IF IsBaseModel(parsed)
             THEN /\ sp_pc' = "returned"
                  /\ sp_result' = SPReturned(parsed)
             ELSE /\ sp_pc' = "raised"
                  /\ sp_result' = SPRaised(MismatchError)
  /\ UNCHANGED <<sp_cfg, stored_generation_config, sp_op, sp_output_cls, sp_log, sp_sent_config>>
  /\ UNCHANGED <<sp_chunks, sp_current_json, sp_yielded>>
  /\ StructFrame

\* What the generic program hands back: an instance of the output class, or
\* the validation error it gave up with.
ProgramFailures == {Exc("ValidationError", "m1")}

\* LLM.structured_predict after the start event: the program runs; its
\* result is followed by the end event and returned, its exception leaves.
SPProgram ==
  /\ sp_pc = "generic"
  /\ \/ \E e \in ProgramFailures :
          /\ sp_pc' = "raised"
          /\ sp_result' = SPRaised(e)
          /\ UNCHANGED sp_log
     \/ /\ sp_pc' = "returned"
        /\ sp_result' = SPReturned(Instance(sp_output_cls))
        /\ sp_log' = Append(sp_log, "LLMStructuredPredictEndEvent")
  /\ UNCHANGED <<sp_cfg, stored_generation_config, sp_op, sp_output_cls, sp_sent_config, sp_parsed>>
  /\ UNCHANGED <<sp_chunks, sp_current_json, sp_yielded>>
  /\ StructFrame

\* The head of stream_structured_predict / astream_structured_predict.  In
\* DEFAULT mode the config is merged and gen() is returned unstarted;
\* otherwise the generator of super().stream_structured_predict, or the one
\* awaited from super().astream_structured_predict, is returned unstarted.
SSPBegin(op, output_cls, overrides) ==
  /\ sp_pc \in {"idle", "returned", "raised", "done"}
  /\ sp_op' = op
  /\ sp_output_cls' = output_cls
  /\ sp_parsed' = NoParsed
  /\ sp_result' = SPStream
  /\ sp_chunks' = <<>>
  /\ sp_current_json' = ""
  /\ sp_yielded' = <<>>
  /\ IF sp_cfg.mode = "DEFAULT"
     THEN /\ sp_pc' = "gen_native"
          /\ sp_sent_config' = NativeConfig(stored_generation_config, overrides, output_cls)
          /\ sp_log' = <<>>
          /\ stored_generation_config' =
               StoredConfigAfterCall(stored_generation_config,
                                     NativeConfig(stored_generation_config, overrides, output_cls))
     ELSE /\ sp_pc' = "gen_generic"
          /\ sp_sent_config' = <<>>
          /\ sp_log' = <<"LLM." \o op>>
          /\ UNCHANGED stored_generation_config
  /\ UNCHANGED sp_cfg
  /\ ch_pc # "attempting"
  /\ ChatRecordDropped
  /\ AdapterFrame

StreamStructuredPredict ==
  \E c \in OutputClasses, o \in Overrides : SSPBegin("stream_structured_predict", c, o)

AStreamStructuredPredict ==
  \E c \in OutputClasses, o \in Overrides : SSPBegin("astream_structured_predict", c, o)

\* The first pull on the native gen(): generate_content_stream is called,
\* and answers with a chunk source or raises.
SSPNativeOpen ==
  /\ sp_pc = "gen_native"
  /\ sp_log' = Append(sp_log, GenerateStreamCall(sp_op))
  /\ \/ \E e \in BackendFailures :
          /\ sp_pc' = "raised"
          /\ sp_result' = SPRaised(e)
     \/ /\ sp_pc' = "chunks"
        /\ UNCHANGED sp_result
  /\ UNCHANGED <<sp_cfg, stored_generation_config, sp_op, sp_output_cls, sp_sent_config, sp_parsed>>
  /\ UNCHANGED <<sp_chunks, sp_current_json, sp_yielded>>
  /\ StructFrame

\* One iteration of `for chunk in response_gen`: a truthy chunk.parsed is
\* yielded; else with candidates the flexible decode is tried and its object,
\* if any, yielded; else the chunk is passed over.
SSPNativeChunk ==
  /\ sp_pc = "chunks"
  /\ Len(sp_chunks) < MaxChunks
  /\ \E chunk \in Chunks :
       LET step == NativeChunkStep(sp_current_json, chunk, sp_output_cls)
       IN  /\ sp_chunks' = Append(sp_chunks, chunk)
           /\ sp_current_json' = step.current_json
           /\ sp_yielded' = sp_yielded \o step.yields
           /\ IF step.exc = NoExc
              THEN UNCHANGED <<sp_pc, sp_result>>
              ELSE /\ sp_pc' = "raised"
                   /\ sp_result' = SPRaised(step.exc)
  /\ UNCHANGED <<sp_cfg, stored_generation_config, sp_op, sp_output_cls, sp_log, sp_sent_config, sp_parsed>>
  /\ StructFrame

\* The chunk source is exhausted: gen() ends.
SSPNativeEnd ==
  /\ sp_pc = "chunks"
  /\ sp_pc' = "done"
  /\ UNCHANGED <<sp_cfg, stored_generation_config, sp_op, sp_output_cls, sp_log, sp_sent_config, sp_parsed, sp_result>>
  /\ UNCHANGED <<sp_chunks, sp_current_json, sp_yielded>>
  /\ StructFrame

\* The first pull on the generic generator: the start event, then
\* _structured_stream_call / _structured_astream_call hands back the
\* program's stream or raises.
SSPGenericOpen ==
  /\ sp_pc = "gen_generic"
  /\ sp_log' = Append(sp_log, "LLMStructuredPredictStartEvent")
  /\ \/ \E e \in ProgramFailures :
          /\ sp_pc' = "raised"
          /\ sp_result' = SPRaised(e)
     \/ /\ sp_pc' = "partials"
        /\ UNCHANGED sp_result
  /\ UNCHANGED <<sp_cfg, stored_generation_config, sp_op, sp_output_cls, sp_sent_config, sp_parsed>>
  /\ UNCHANGED <<sp_chunks, sp_current_json, sp_yielded>>
  /\ StructFrame

\* One iteration of `for r in result`: the in-progress event, then the yield.
SSPGenericPartial ==
  /\ sp_pc = "partials"
  /\ Len(sp_chunks) < MaxChunks
  /\ \E r \in Partials :
       /\ sp_chunks' = Append(sp_chunks, r)
       /\ sp_log' = Append(sp_log, "LLMStructuredPredictInProgressEvent")
       /\ sp_yielded' = Append(sp_yielded, r)
  /\ UNCHANGED <<sp_cfg, stored_generation_config, sp_pc, sp_op, sp_output_cls, sp_sent_config, sp_parsed, sp_result>>
  /\ UNCHANGED sp_current_json
  /\ StructFrame

\* The program's stream is exhausted: the end event is built from the loop
\* variable r, which is unbound when the loop body never ran.
SSPGenericEnd ==
  /\ sp_pc = "partials"
  /\ IF sp_chunks = <<>>
     THEN /\ sp_pc' = "raised"
          /\ sp_result' = SPRaised(UnboundLocal)
          /\ UNCHANGED sp_log
     ELSE /\ sp_pc' = "done"
          /\ sp_log' = Append(sp_log, "LLMStructuredPredictEndEvent")
          /\ UNCHANGED sp_result
  /\ UNCHANGED <<sp_cfg, stored_generation_config, sp_op, sp_output_cls, sp_sent_config, sp_parsed>>
  /\ UNCHANGED <<sp_chunks, sp_current_json, sp_yielded>>
  /\ StructFrame

NextStruct ==
  \/ StructuredPredict
  \/ AStructuredPredict
  \/ SPRespond
  \/ SPProgram
  \/ StreamStructuredPredict
  \/ AStreamStructuredPredict
  \/ SSPNativeOpen
  \/ SSPNativeChunk
  \/ SSPNativeEnd
  \/ SSPGenericOpen
  \/ SSPGenericPartial
  \/ SSPGenericEnd

(***************************************************************************)
(* GoogleGenAI._prepare_chat_with_tools, get_tool_calls_from_response and  *)
(* ToolSelection                                                           *)
(***************************************************************************)
\* The longest tool list, tool-call record list and caller's chat history.
MaxTools == 2

MaxRecords == 2

MaxHistory == 2

\* A tool by what the adapter reads of it: metadata.name (a str or None)
\* and whether metadata.fn_schema is set.
Tool(name, fn_schema) == [name |-> name, fn_schema |-> fn_schema]

ToolPool ==
  {Tool(n, b) : n \in {"f", "g", "auto", "any", None}, b \in BOOLEAN}

ToolLists == UNION {[1..n -> ToolPool] : n \in 0..MaxTools}

\* tool_choice: None, a str or a dict.
NoChoice == [type |-> "NoneType", text |-> ""]

StrChoice(text) == [type |-> "str", text |-> text]

DictChoice == [type |-> "dict", text |-> ""]

ToolChoices ==
  {NoChoice, DictChoice} \cup {StrChoice(t) : t \in {"auto", "none", "any", "f", "h"}}

\* user_msg: None or a str (a ChatMessage is what the str is turned into).
UserMsgs == {None, "hi"}

\* if tool_choice is None: tool_choice = "any" if tool_required else "auto"
EffectiveChoice(tool_choice, tool_required) ==
  IF tool_choice = NoChoice
  THEN (IF tool_required THEN StrChoice("any") ELSE StrChoice("auto"))
  ELSE tool_choice

\* tool_choice == "auto" -> AUTO; == "none" -> NONE; else ANY
ToolMode(choice) ==
  IF choice = StrChoice("auto") THEN "AUTO"
  ELSE IF choice = StrChoice("none") THEN "NONE"
  ELSE "ANY"

\* tool_choice not in ["auto", "none"]
NamesATool(choice) == choice \notin {StrChoice("auto"), StrChoice("none")}

NameOf(tool) == tool.name

HasName(tool) == Truthy(tool.name)

RECURSIVE MapNames(_)
MapNames(tools) ==
  IF tools = <<>> THEN <<>> ELSE <<NameOf(Head(tools))>> \o MapNames(Tail(tools))

\* [tool.metadata.name for tool in tools if tool.metadata.name]
ToolNamesOf(tools) == MapNames(SelectSeq(tools, HasName))

InList(x, seq) == \E i \in 1..Len(seq) : seq[i] = x

\* A slip that restricts to the chosen name whether or not a tool carries it.
AllowedFunctionNamesNoFallback(choice, tools) == <<choice.text>>

\* allowed_function_names: tool_names if tool_choice not in tool_names,
\* else [tool_choice]
AllowedFunctionNames(choice, tools) ==
  IF ~InList(choice.text, ToolNamesOf(tools)) THEN ToolNamesOf(tools)
  ELSE <<choice.text>>

\* types.ToolConfig(function_calling_config=...): the mode, and the
\* restriction where allowed_function_names was assigned.
ToolConfig(mode, restricted, allowed) ==
  [mode |-> mode, restricted |-> restricted, allowed |-> allowed]

NoToolConfig == ToolConfig("none", FALSE, <<>>)

BuildToolConfig(choice, tools) ==
  IF NamesATool(choice)
  THEN ToolConfig(ToolMode(choice), TRUE, AllowedFunctionNames(choice, tools))
  ELSE ToolConfig(ToolMode(choice), FALSE, <<>>)

HasSchema(tool) == tool.fn_schema

\* convert_schema_to_function_declaration(self._client, tool): the
\* declaration of the tool, known by the tool's name.
ConvertSchemaToFunctionDeclaration(tool) == [declares |-> tool.name]

RECURSIVE MapDeclarations(_)
MapDeclarations(tools) ==
  IF tools = <<>> THEN <<>>
  ELSE <<ConvertSchemaToFunctionDeclaration(Head(tools))>> \o MapDeclarations(Tail(tools))

\* for tool in tools: if tool.metadata.fn_schema: tool_declarations.append(...)
ToolDeclarations(tools) == MapDeclarations(SelectSeq(tools, HasSchema))

\* The dict _prepare_chat_with_tools returns: "messages", "tools" (None
\* without declarations, else one Tool holding them) and "tool_config"; or
\* the exception it raised.
NoPrepared ==
  [kind |-> "none", messages |-> <<>>, tools_is_none |-> TRUE, function_declarations |-> <<>>,
   has_tool_config |-> FALSE, tool_config |-> NoToolConfig, exc |-> NoExc]

Prepared(messages, declarations, tool_config) ==
  [kind |-> "value", messages |-> messages, tools_is_none |-> (declarations = <<>>),
   function_declarations |-> declarations, has_tool_config |-> TRUE,
   tool_config |-> tool_config, exc |-> NoExc]

PrepareRaised(e) == [NoPrepared EXCEPT !.kind = "error", !.exc = e]

DictChoiceError == Exc("ValueError", "Gemini does not support tool_choice as a dict")

\* The arguments of a call; history_before is what the caller's list held
\* when the call was made.
NoPrepareArgs ==
  [tools |-> <<>>, user_msg |-> None, history_given |-> FALSE, history_before |-> <<>>,
   tool_required |-> FALSE, tool_choice |-> NoChoice]

\* A Python value by its type: a dict by its items (keys are str), a str by
\* its text, None.
PyDict(items) == [type |-> "dict", items |-> items, text |-> ""]

PyStr(text) == [type |-> "str", items |-> {}, text |-> text]

PyNone == [type |-> "NoneType", items |-> {}, text |-> ""]

PyValues ==
  {PyDict({}), PyDict({<<"x", "1">>}), PyDict({<<"x", "1">>, <<"y", "b">>}),
   PyStr("abc"), PyStr(""), PyNone}

\* handler(v) for a field declared Dict[str, Any]: the value itself when it
\* is a dict, a ValidationError otherwise.
Handler(v) ==
  IF v.type = "dict" THEN [ok |-> TRUE, val |-> v] ELSE [ok |-> FALSE, val |-> PyNone]

\* The validator without its except branch.
ValidateWithoutFallback(v) == Handler(v)

\* ToolSelection.ignore_non_dict_arguments:
\*   try: return handler(v)   except ValidationError: return handler({})
IgnoreNonDictArguments(v) == IF Handler(v).ok THEN Handler(v) ELSE Handler(PyDict({}))

\* Whether ToolSelection(..., tool_kwargs=v) is constructed, not raised from.
Constructs(v) == IgnoreNonDictArguments(v).ok

\* ToolSelection(tool_id=..., tool_name=..., tool_kwargs=...)
ToolSelection(tool_id, tool_name, tool_kwargs) ==
  [tool_id |-> tool_id, tool_name |-> tool_name,
   tool_kwargs |-> IgnoreNonDictArguments(tool_kwargs).val]

KwargsError == Exc("ValidationError", "tool_kwargs")

\* model_dump(): the fields as a plain dict.
ModelDump(sel) ==
  [tool_id |-> sel.tool_id, tool_name |-> sel.tool_name, tool_kwargs |-> sel.tool_kwargs]

\* ToolSelection(**dumped): construction again, validator included.
ModelValidate(dumped) == ToolSelection(dumped.tool_id, dumped.tool_name, dumped.tool_kwargs)

\* A tool-call record of additional_kwargs["tool_calls"].
ToolCallRecord(name, args) == [name |-> name, args |-> args]

ToolCallRecords ==
  {ToolCallRecord(n, a) : n \in {"f", "g"}, a \in {PyDict({}), PyDict({<<"x", "1">>}), PyNone}}

RecordLists == UNION {[1..n -> ToolCallRecords] : n \in 0..MaxRecords}

NoToolCallError == Exc("ValueError", "Expected at least one tool call, but got 0 tool calls.")

\* A slip that hands the selections back last record first.
RECURSIVE SelectionsOfReversed(_)
SelectionsOfReversed(records) ==
  IF records = <<>> THEN <<>>
  ELSE SelectionsOfReversed(Tail(records))
         \o <<ToolSelection(Head(records).name, Head(records).name, Head(records).args)>>

\* for tool_call in tool_calls: tool_selections.append(ToolSelection(
\*   tool_id=tool_call["name"], tool_name=tool_call["name"],
\*   tool_kwargs=tool_call["args"]))
RECURSIVE SelectionsOf(_)
SelectionsOf(records) ==
  IF records = <<>> THEN <<>>
  ELSE <<ToolSelection(Head(records).name, Head(records).name, Head(records).args)>>
         \o SelectionsOf(Tail(records))

NoSelected == [kind |-> "none", selections |-> <<>>, exc |-> NoExc]

NoSelectArgs == [tool_calls |-> <<>>, error_on_no_tool_call |-> TRUE]

NoConstructed ==
  [kind |-> "none", given |-> PyNone, selection |-> ToolSelection("", "", PyDict({})),
   restored |-> ToolSelection("", "", PyDict({})), exc |-> NoExc]

IdleTools ==
  /\ chat_history = <<>>
  /\ tl_pc = "idle"
  /\ tl_op = "none"
  /\ tl_log = <<>>
  /\ prep_args = NoPrepareArgs
  /\ prep_result = NoPrepared
  /\ sel_args = NoSelectArgs
  /\ sel_result = NoSelected
  /\ ts_result = NoConstructed

\* The caller holds a chat history list, empty or not.
InitTools ==
  /\ chat_history \in {<<>>, <<ChatMessage("user", "m0")>>}
  /\ tl_pc = "idle"
  /\ tl_op = "none"
  /\ tl_log = <<>>
  /\ prep_args = NoPrepareArgs
  /\ prep_result = NoPrepared
  /\ sel_args = NoSelectArgs
  /\ sel_result = NoSelected
  /\ ts_result = NoConstructed

RECURSIVE ConversionLog(_)
\* One conversion call per declaration, in order.
ConversionLog(declarations) ==
  IF declarations = <<>> THEN <<>>
  ELSE <<"convert_schema_to_function_declaration">> \o ConversionLog(Tail(declarations))

\* _prepare_chat_with_tools(tools, user_msg, chat_history, tool_required,
\* tool_choice), whole.  The caller passes its own list as chat_history or
\* passes none; `messages = chat_history or []` is the caller's list when
\* that is non-empty, and messages.append(user_msg) then writes to it.
PrepareChatWithTools ==
  /\ tl_pc = "idle"
  /\ Len(chat_history) < MaxHistory
  /\ \E tools \in ToolLists, tool_choice \in ToolChoices, tool_required \in BOOLEAN,
        user_msg \in UserMsgs, history_given \in BOOLEAN :
       LET choice   == EffectiveChoice(tool_choice, tool_required)
           given    == IF history_given THEN chat_history ELSE <<>>
           added    == IF user_msg # None THEN <<ChatMessage("user", user_msg)>> ELSE <<>>
           declared == ToolDeclarations(tools)
       IN  /\ tl_op' = "_prepare_chat_with_tools"
           /\ prep_args' = [tools |-> tools, user_msg |-> user_msg,
                            history_given |-> history_given,
                            history_before |-> chat_history,
                            tool_required |-> tool_required, tool_choice |-> tool_choice]
           /\ IF NamesATool(choice) /\ choice.type = "dict"
              THEN /\ tl_pc' = "raised"
                   /\ prep_result' = PrepareRaised(DictChoiceError)
                   /\ tl_log' = <<>>
                   /\ UNCHANGED chat_history
              ELSE /\ tl_pc' = "returned"
                   /\ prep_result' = Prepared(given \o added, declared,
                                              BuildToolConfig(choice, tools))
                   /\ tl_log' = ConversionLog(declared)
                                  \o (IF added # <<>> THEN <<"messages.append">> ELSE <<>>)
                   /\ chat_history' = IF history_given /\ chat_history # <<>>
                                      THEN chat_history \o added
                                      ELSE chat_history
  /\ UNCHANGED <<sel_args, sel_result, ts_result>>
  /\ ToolsFrame

\* get_tool_calls_from_response(response, error_on_no_tool_call), whole.
GetToolCallsFromResponse ==
  /\ tl_pc = "idle"
  /\ \E tool_calls \in RecordLists, error_on_no_tool_call \in BOOLEAN :
       /\ tl_op' = "get_tool_calls_from_response"
       /\ sel_args' = [tool_calls |-> tool_calls,
                       error_on_no_tool_call |-> error_on_no_tool_call]
       /\ IF Len(tool_calls) < 1
          THEN IF error_on_no_tool_call
               THEN /\ tl_pc' = "raised"
                    /\ sel_result' = [kind |-> "error", selections |-> <<>>,
                                      exc |-> NoToolCallError]
               ELSE /\ tl_pc' = "returned"
                    /\ sel_result' = [kind |-> "value", selections |-> <<>>, exc |-> NoExc]
          ELSE IF \A i \in 1..Len(tool_calls) : Constructs(tool_calls[i].args)
          THEN /\ tl_pc' = "returned"
               /\ sel_result' = [kind |-> "value", selections |-> SelectionsOf(tool_calls),
                                 exc |-> NoExc]
          ELSE /\ tl_pc' = "raised"
               /\ sel_result' = [kind |-> "error", selections |-> <<>>, exc |-> KwargsError]
  /\ UNCHANGED <<chat_history, tl_log, prep_args, prep_result, ts_result>>
  /\ ToolsFrame

\* ToolSelection(tool_id, tool_name, tool_kwargs=v), then model_dump and
\* construction from the dump.
ConstructToolSelection ==
  /\ tl_pc = "idle"
  /\ \E v \in PyValues, name \in {"f", "g"} :
       LET sel == ToolSelection(name, name, v)
       IN  /\ tl_op' = "ToolSelection"
           /\ IF Constructs(v) /\ Constructs(ModelDump(sel).tool_kwargs)
              THEN /\ tl_pc' = "returned"
                   /\ ts_result' = [kind |-> "value", given |-> v, selection |-> sel,
                                    restored |-> ModelValidate(ModelDump(sel)), exc |-> NoExc]
              ELSE /\ tl_pc' = "raised"
                   /\ ts_result' = [NoConstructed EXCEPT !.kind = "error", !.given = v,
                                                         !.exc = KwargsError]
  /\ UNCHANGED <<chat_history, tl_log, prep_args, prep_result, sel_args, sel_result>>
  /\ ToolsFrame

\* The caller has taken the result or the exception and goes on.
ToolsCallOver ==
  /\ tl_pc \in {"returned", "raised"}
  /\ tl_pc' = "idle"
  /\ tl_op' = "none"
  /\ tl_log' = <<>>
  /\ prep_args' = NoPrepareArgs
  /\ prep_result' = NoPrepared
  /\ sel_args' = NoSelectArgs
  /\ sel_result' = NoSelected
  /\ ts_result' = NoConstructed
  /\ UNCHANGED chat_history
  /\ ToolsFrame

NextTools ==
  \/ PrepareChatWithTools
  \/ GetToolCallsFromResponse
  \/ ConstructToolSelection
  \/ ToolsCallOver

(***************************************************************************)
(* GoogleGenAI.chat / achat under llm_retry_decorator, and the heads of    *)
(* stream_chat / astream_chat                                              *)
(***************************************************************************)
\* What the backend answers a chat with.
ChatReplies == {"r1", "r2"}

\* Failures the retry policy retries, and one it does not.
TransientFailures == {Exc("ServerError", "e1"), Exc("ServerError", "e2")}

FatalFailures == {Exc("ClientError", "e3")}

ChatFailures == TransientFailures \cup FatalFailures

\* A slip that wraps whatever max_retries is.
WrappedAlways(max_retries) == TRUE

\* llm_retry_decorator: `if max_retries <= 0: return f(self, *args, **kwargs)`,
\* else the call goes through create_retry_decorator(...)(f).
Wrapped(max_retries) == ~(max_retries <= 0)

\* A slip that grants one attempt more than configured.
RetryBudgetPlusOne(max_retries) == max_retries + 1

\* create_retry_decorator(max_retries=max_retries, ...): the bound handed over.
RetryBudget(max_retries) == max_retries

\* The retry decorator after a failed attempt: another attempt is made for a
\* transient failure while fewer attempts than the bound were made and the
\* total delay is not used up; otherwise the failure is raised again.
RetriesAgain(e, made, budget, delay_exceeded) ==
  /\ e \in TransientFailures
  /\ made < budget
  /\ ~delay_exceeded

\* self._client.chats.create / self._client.aio.chats.create
CreateCall(op) ==
  IF op \in {"achat", "astream_chat"} THEN "aio.chats.create" ELSE "chats.create"

\* One run of the body of _chat / _achat, as the calls it makes, in order.
AttemptCalls(op) == <<"merge", "prepare_chat_params", CreateCall(op), "send_message">>

SendCalls == {"send_message", "send_message_stream"}

\* An attempt by the config it sent and how it ended.
Attempt(config, exc, reply) == [config |-> config, exc |-> exc, reply |-> reply]

StructRecordDropped ==
  /\ sp_pc' = "idle"
  /\ sp_op' = "none"
  /\ sp_output_cls' = "Out"
  /\ sp_log' = <<>>
  /\ sp_sent_config' = <<>>
  /\ sp_parsed' = NoParsed
  /\ sp_result' = SPNoResult
  /\ sp_chunks' = <<>>
  /\ sp_current_json' = ""
  /\ sp_yielded' = <<>>
  /\ UNCHANGED sp_cfg

IdleChat ==
  /\ ch_pc = "idle"
  /\ ch_op = "none"
  /\ ch_overrides = <<>>
  /\ ch_attempts = <<>>
  /\ ch_log = <<>>
  /\ ch_result = NoResult

\* chat / achat called: the wrapper reads max_retries and, above zero,
\* builds the retry decorator around the body.
ChatBegin(op, overrides) ==
  /\ ch_pc \in {"idle", "returned", "raised"}
  /\ ch_pc' = "attempting"
  /\ ch_op' = op
  /\ ch_overrides' = overrides
  /\ ch_attempts' = <<>>
  /\ ch_log' = IF Wrapped(sp_cfg.max_retries) THEN <<"create_retry_decorator">> ELSE <<>>
  /\ ch_result' = NoResult
  /\ sp_pc \in {"idle", "returned", "raised", "done"}
  /\ StructRecordDropped
  /\ UNCHANGED stored_generation_config
  /\ AdapterFrame

Chat == \E o \in Overrides : ChatBegin("chat", o)

AChat == \E o \in Overrides : ChatBegin("achat", o)

\* One run of the body of _chat / _achat: the config is merged, the chat
\* created and the message sent; the backend answers or fails.  Unwrapped, a
\* failure leaves the call; wrapped, the retry decorator decides.
ChatAttempt ==
  /\ ch_pc = "attempting"
  /\ LET merged == Merge(stored_generation_config, ch_overrides)
         made   == Len(ch_attempts) + 1
     IN  /\ ch_log' = ch_log \o AttemptCalls(ch_op)
         /\ stored_generation_config' = StoredConfigAfterCall(stored_generation_config, merged)
         /\ \/ \E reply \in ChatReplies :
                 /\ ch_attempts' = Append(ch_attempts, Attempt(merged, NoExc, reply))
                 /\ ch_pc' = "returned"
                 /\ ch_result' = Returned(reply)
            \/ \E e \in ChatFailures, delay_exceeded \in BOOLEAN :
                 /\ ch_attempts' = Append(ch_attempts, Attempt(merged, e, None))
                 /\ IF /\ Wrapped(sp_cfg.max_retries)
                       /\ RetriesAgain(e, made, RetryBudget(sp_cfg.max_retries), delay_exceeded)
                    THEN /\ ch_pc' = "attempting"
                         /\ UNCHANGED ch_result
                    ELSE /\ ch_pc' = "raised"
                         /\ ch_result' = Raised(e)
  /\ UNCHANGED <<ch_op, ch_overrides>>
  /\ UNCHANGED sp_call_vars
  /\ AdapterFrame

\* The head of _stream_chat / _astream_chat, which no retry decorator wraps:
\* the config is merged and the chat created; the sync head also calls
\* send_message_stream, which may fail, the async head leaves that to gen().
\* The generator returned is followed in the streaming accumulator.
StreamChatBegin(op, overrides) ==
  /\ ch_pc \in {"idle", "returned", "raised"}
  /\ ch_op' = op
  /\ ch_overrides' = overrides
  /\ LET merged == Merge(stored_generation_config, overrides)
         calls  == <<"merge", "prepare_chat_params", CreateCall(op)>>
     IN  /\ stored_generation_config' = StoredConfigAfterCall(stored_generation_config, merged)
         /\ IF op = "stream_chat"
            THEN /\ ch_log' = calls \o <<"send_message_stream">>
                 /\ \/ /\ ch_attempts' = <<Attempt(merged, NoExc, "generator")>>
                       /\ ch_pc' = "returned"
                       /\ ch_result' = Returned("generator")
                    \/ \E e \in ChatFailures :
                         /\ ch_attempts' = <<Attempt(merged, e, None)>>
                         /\ ch_pc' = "raised"
                         /\ ch_result' = Raised(e)
            ELSE /\ ch_log' = calls
                 /\ ch_attempts' = <<Attempt(merged, NoExc, "generator")>>
                 /\ ch_pc' = "returned"
                 /\ ch_result' = Returned("generator")
  /\ sp_pc \in {"idle", "returned", "raised", "done"}
  /\ StructRecordDropped
  /\ AdapterFrame

StreamChatCall == \E o \in Overrides : StreamChatBegin("stream_chat", o)

AStreamChatCall == \E o \in Overrides : StreamChatBegin("astream_chat", o)

NextChat ==
  \/ Chat
  \/ AChat
  \/ ChatAttempt
  \/ StreamChatCall
  \/ AStreamChatCall

\* Every operation that reads the stored generation config, in any order.
NextAdapter ==
  \/ Chat
  \/ AChat
  \/ ChatAttempt
  \/ StreamChatCall
  \/ AStreamChatCall
  \/ StructuredPredict
  \/ AStructuredPredict
  \/ SPRespond
  \/ SPProgram
  \/ StreamStructuredPredict
  \/ AStreamStructuredPredict
  \/ SSPNativeOpen
  \/ SSPNativeChunk
  \/ SSPNativeEnd
  \/ SSPGenericOpen
  \/ SSPGenericPartial
  \/ SSPGenericEnd

(***************************************************************************)
(* Specifications                                                          *)
(***************************************************************************)
InitSpecStream ==
  /\ IdleStream
  /\ IdleLLM
  /\ IdleCall
  /\ IdleStruct
  /\ IdleTools
  /\ IdleChat

SpecStream == InitSpecStream /\ [][NextStream]_vars

InitSpecLLM ==
  /\ InitLLM
  /\ IdleStream
  /\ IdleCall
  /\ IdleStruct
  /\ IdleTools
  /\ IdleChat

SpecLLM == InitSpecLLM /\ [][NextLLM]_vars

InitSpecCall ==
  /\ IdleCall
  /\ IdleStream
  /\ IdleLLM
  /\ IdleStruct
  /\ IdleTools
  /\ IdleChat

SpecCall == InitSpecCall /\ [][NextCall]_vars

InitSpecStruct ==
  /\ InitStruct
  /\ IdleStream
  /\ IdleLLM
  /\ IdleCall
  /\ IdleTools
  /\ IdleChat

\* A native stream that is being consumed: each pull on gen() is answered,
\* by the next chunk or by the end of the backend's finite chunk sequence.
SpecStructLive ==
  /\ InitSpecStruct
  /\ [][NextStruct]_vars
  /\ WF_vars(SSPNativeChunk \/ SSPNativeEnd)

SpecStruct == InitSpecStruct /\ [][NextStruct]_vars

InitSpecTools ==
  /\ InitTools
  /\ IdleStream
  /\ IdleLLM
  /\ IdleCall
  /\ IdleStruct
  /\ IdleChat

SpecTools == InitSpecTools /\ [][NextTools]_vars

InitSpecChat ==
  /\ InitStruct
  /\ IdleChat
  /\ IdleStream
  /\ IdleLLM
  /\ IdleCall
  /\ IdleTools

SpecChat == InitSpecChat /\ [][NextChat]_vars

SpecAdapter == InitSpecChat /\ [][NextAdapter]_vars

(***************************************************************************)
(* Properties of the streaming accumulator                                 *)
(***************************************************************************)
RECURSIVE ConcatDeltas(_, _)
\* The deltas of the first k emissions, concatenated, an absent delta as "".
ConcatDeltas(es, k) ==
  IF k = 0 THEN "" ELSE ConcatDeltas(es, k - 1) \o OrEmpty(es[k].delta)

IsPrefix(p, q) == Len(p) <= Len(q) /\ SubSeq(q, 1, Len(p)) = p

\* C1: at every emission of a stream, the running content equals the
\* concatenation of all deltas emitted so far (so the deltas of a finished
\* stream reconstruct the content of its last emission).
C1_DeltasReconstructContent ==
  \A s \in Streams : \A k \in 1..Len(emitted[s]) :
    ConcatDeltas(emitted[s], k) = emitted[s][k].content

\* C2: within one stream, the tool-call sequence of each emission has the
\* tool-call sequence of the previous emission as a prefix.
C2_ToolCallsGrowByAppending ==
  \A s \in Streams : \A k \in 2..Len(emitted[s]) :
    IsPrefix(emitted[s][k - 1].tool_calls, emitted[s][k].tool_calls)

\* A stream whose second emission added tool calls to a non-empty sequence.
C2_Witness ==
  \E s \in Streams :
    /\ Len(emitted[s]) >= 2
    /\ emitted[s][1].tool_calls = <<"f">>
    /\ emitted[s][2].tool_calls = <<"f", "g", "f">>

(***************************************************************************)
(* Properties of predict / stream                                          *)
(***************************************************************************)
\* How many entries of the log lie in the set S.
CountIn(log, S) == Cardinality({i \in 1..Len(log) : log[i] \in S})

StreamingWithParser ==
  /\ llm_op \in {"stream", "astream"}
  /\ (llm_prompt_parser \/ llm_cfg.output_parser)

CapabilityErrorRaised ==
  /\ llm_pc = "raised"
  /\ llm_result.kind = "error"
  /\ llm_result.exc.type = "NotImplementedError"

C4_CapabilityErrorBeforeBackend ==
  (llm_op \in {"stream", "astream"} /\ CapabilityErrorRaised) =>
    CountIn(llm_log, StreamPrimitives \cup TransportCalls) = 0

PredictOnChatModelNoParser ==
  /\ llm_op \in {"predict", "apredict"}
  /\ llm_cfg.is_chat_model
  /\ ~llm_cfg.output_parser

\* C7: predict/apredict on a chat model without output parser make one chat
\* call, never a completion call, and return the chat message's content, or
\* "" when the content is absent.
C7_PredictReturnsChatContent ==
  PredictOnChatModelNoParser =>
    /\ CountIn(llm_log, CompletionPrimitives) = 0
    /\ CountIn(llm_log, ChatPrimitives) <= 1
    /\ llm_pc = "returned" =>
         /\ CountIn(llm_log, ChatPrimitives) = 1
         /\ llm_result = Returned(IF llm_response = None THEN "" ELSE llm_response)

\* A predict whose chat response had no content has returned "".
C7_Witness ==
  /\ PredictOnChatModelNoParser
  /\ llm_pc = "returned"
  /\ llm_response = None
  /\ llm_result = Returned("")

\* C8: when the output parser's parse fails, predict/apredict end by raising
\* that same failure: nothing is returned, the backend was called once and
\* no predict-end event was dispatched.
C8_ParseFailurePropagates ==
  llm_parse_exc # NoExc =>
    /\ llm_pc = "raised"
    /\ llm_result = Raised(llm_parse_exc)
    /\ CountIn(llm_log, ChatPrimitives \cup CompletionPrimitives) = 1
    /\ CountIn(llm_log, {"LLMPredictEndEvent"}) = 0

\* An apredict whose parser raised the second of the two failures.
C8_Witness ==
  /\ llm_op = "apredict"
  /\ llm_parse_exc = Exc("ValidationError", "m2")
  /\ llm_result = Raised(Exc("ValidationError", "m2"))

RECURSIVE ContentsWithBlankLines(_, _)
\* The contents of the first k outputs, a blank line between neighbours.
ContentsWithBlankLines(outputs, k) ==
  IF k = 0 THEN ""
  ELSE IF k = 1 THEN outputs[1].content
  ELSE ContentsWithBlankLines(outputs, k - 1) \o "\n\n" \o outputs[k].content

\* C6: when the step and every tool succeed, every selection was executed
\* once, in the step's order; the sources are the outputs in that order and
\* the content is their contents joined by "\n\n".
C6_SuccessJoinsOutputsInOrder ==
  (pac_pc = "returned" /\ pac_failure.stage = "none") =>
    /\ pac_executed = pac_selections
    /\ pac_result.kind = "response"
    /\ Len(pac_result.sources) = Len(pac_selections)
    /\ \A i \in 1..Len(pac_selections) : pac_result.sources[i].tool = pac_selections[i]
    /\ pac_result.sources = pac_tool_outputs
    /\ pac_result.response =
         ContentsWithBlankLines(pac_result.sources, Len(pac_result.sources))

\* Tools t2 then t1 returned "A" then "B": the content is "A\n\nB".
C6_Witness ==
  /\ pac_pc = "returned" /\ pac_failure.stage = "none"
  /\ pac_selections = <<"t2", "t1">>
  /\ pac_result.sources = <<[tool |-> "t2", content |-> "A"], [tool |-> "t1", content |-> "B"]>>
  /\ pac_result.response = "A\n\nB"

\* A step with no selection returned the empty content.
C6_WitnessEmpty ==
  /\ pac_pc = "returned" /\ pac_failure.stage = "none"
  /\ pac_selections = <<>>
  /\ pac_result = AgentChatResponse("", <<>>)

(***************************************************************************)
(* Properties of the native structured predict                             *)
(***************************************************************************)
NativeCallOver ==
  /\ sp_cfg.mode = "DEFAULT"
  /\ sp_op \in {"structured_predict", "astructured_predict"}
  /\ sp_pc \in {"returned", "raised"}

\* The backend answered with something that is no instance of the class asked for.
NotConforming == sp_parsed # Instance(sp_output_cls)

\* C9: under the native strategy every call invokes the backend exactly
\* once, whatever max_retries is, and a parsed result that is no conforming
\* model object ends the call with the mismatch error.
C9_NativeOnceAndMismatchFatal ==
  NativeCallOver =>
    /\ CountNative(sp_log) = 1
    /\ (sp_result.exc \notin BackendFailures /\ NotConforming) =>
         sp_result = SPRaised(MismatchError)

\* What the code keeps of it: one backend request per native call, and a
\* result that is no model object at all is fatal, without a second request.
NativeOnceNoRetry ==
  NativeCallOver =>
    /\ CountNative(sp_log) = 1
    /\ (sp_result.exc \notin BackendFailures /\ sp_parsed.kind # "model") =>
         sp_result = SPRaised(MismatchError)

\* C10: whatever the native strategy returns is an instance of the requested
\* output class.
C10_NativeReturnsRequestedClass ==
  (NativeCallOver /\ sp_result.kind = "value") =>
    sp_result.val = Instance(sp_output_cls)

(***************************************************************************)
(* Properties of the strategy selection                                    *)
(***************************************************************************)
\* The base contract's generic operation of the same kind as the adapter's.
BaseOperation(op) == "LLM." \o op

BaseOperations == {BaseOperation(op) : op \in StructuredOps}

\* C11: each of the four structured operations uses the native strategy if
\* and only if the mode is DEFAULT: in DEFAULT mode nothing is delegated to
\* the base contract, and in any other mode the call is delegated to the
\* base operation of the same name (sync to sync, async to async, streaming
\* to streaming) and no schema-constrained generate request is made.
C11_NativeIffDefault ==
  sp_op \in StructuredOps =>
    /\ sp_cfg.mode = "DEFAULT" =>
         /\ CountIn(sp_log, BaseOperations) = 0
         /\ sp_pc \in {"sent", "returned", "raised", "chunks", "done"} => CountNative(sp_log) = 1
    /\ sp_cfg.mode # "DEFAULT" =>
         /\ CountNative(sp_log) = 0
         /\ CountIn(sp_log, BaseOperations) = 1
         /\ sp_log[1] = BaseOperation(sp_op)

\* The same with the delegation target left open: which base operation is
\* reached is not looked at.
StrategyFollowsMode ==
  sp_op \in StructuredOps =>
    /\ sp_cfg.mode = "DEFAULT" => CountIn(sp_log, BaseOperations) = 0
    /\ sp_cfg.mode # "DEFAULT" =>
         /\ CountNative(sp_log) = 0
         /\ CountIn(sp_log, BaseOperations) = 1

(***************************************************************************)
(* Properties of the tool preparation                                      *)
(***************************************************************************)
\* The names the tools of a list carry.
NameSet(tools) == {tools[i].name : i \in DOMAIN tools} \ {None}

Range(seq) == {seq[i] : i \in DOMAIN seq}

PreparedWithStringChoice ==
  /\ tl_op = "_prepare_chat_with_tools"
  /\ prep_args.tool_choice.type = "str"

\* The restriction set is the chosen name alone when a tool carries it, and
\* all tool names otherwise.
RestrictionFollowsChoice ==
  LET names == NameSet(prep_args.tools)
      name  == prep_args.tool_choice.text
  IN  /\ prep_result.kind = "value"
      /\ prep_result.tool_config.restricted
      /\ name \in names => Range(prep_result.tool_config.allowed) = {name}
      /\ name \notin names => Range(prep_result.tool_config.allowed) = names

\* C12: for every tool list and every string tool_choice, the restriction
\* set is exactly the chosen name when it names a tool of the list, and all
\* tool names of the list when it does not.
C12_StringChoiceRestriction == PreparedWithStringChoice => RestrictionFollowsChoice

\* C12 as the code has it: the strings "auto" and "none" are modes, not
\* names (AUTO and NONE, no restriction set, whatever the tools are called);
\* every other string restricts as the claim says.
C12_NamedChoiceRestriction ==
  PreparedWithStringChoice =>
    IF prep_args.tool_choice.text \in {"auto", "none"}
    THEN /\ prep_result.kind = "value"
         /\ ~prep_result.tool_config.restricted
         /\ prep_result.tool_config.mode =
              (IF prep_args.tool_choice.text = "auto" THEN "AUTO" ELSE "NONE")
    ELSE /\ RestrictionFollowsChoice
         /\ prep_result.tool_config.mode = "ANY"

\* The choice "h" names no tool of the list f, g: both names are allowed.
C12_Witness ==
  /\ PreparedWithStringChoice
  /\ prep_args.tool_choice.text = "h"
  /\ prep_args.tools = <<Tool("f", TRUE), Tool("g", FALSE)>>
  /\ prep_result.tool_config = ToolConfig("ANY", TRUE, <<"f", "g">>)

\* The choice "f" names the second tool of the list: it alone is allowed.
C12_WitnessNamed ==
  /\ PreparedWithStringChoice
  /\ prep_args.tool_choice.text = "f"
  /\ prep_args.tools = <<Tool("g", TRUE), Tool("f", TRUE)>>
  /\ prep_result.tool_config = ToolConfig("ANY", TRUE, <<"f">>)

\* A dict tool_choice is rejected before anything else is done: no
\* declaration converted, nothing appended, the caller's history as it was.
DictChoiceRejectedFirst ==
  (tl_op = "_prepare_chat_with_tools" /\ prep_args.tool_choice.type = "dict") =>
    /\ tl_pc = "raised"
    /\ prep_result = PrepareRaised(DictChoiceError)
    /\ tl_log = <<>>
    /\ chat_history = prep_args.history_before

\* C13: a dict tool_choice is rejected with an error before any declaration
\* is converted and before the chat history is touched; with tool_choice
\* unset the mode is ANY restricted to all tool names when tool_required is
\* true, and AUTO without restriction set otherwise.
C13_DictRejectedAndUnsetChoice ==
  /\ DictChoiceRejectedFirst
  /\ (tl_op = "_prepare_chat_with_tools" /\ prep_args.tool_choice = NoChoice) =>
       /\ prep_result.kind = "value"
       /\ IF prep_args.tool_required
          THEN /\ prep_result.tool_config.mode = "ANY"
               /\ prep_result.tool_config.restricted
               /\ Range(prep_result.tool_config.allowed) = NameSet(prep_args.tools)
          ELSE prep_result.tool_config = ToolConfig("AUTO", FALSE, <<>>)

\* The positions of the tools that declare a parameter schema.
WithSchema(tools) == {i \in DOMAIN tools : tools[i].fn_schema}

\* The k-th smallest member of a set of positions.
Kth(positions, k) ==
  CHOOSE i \in positions : Cardinality({j \in positions : j <= i}) = k

\* One declaration per tool with a schema, in the order of the list.
DeclarationsFollowTools ==
  (tl_op = "_prepare_chat_with_tools" /\ tl_pc = "returned") =>
    LET at    == WithSchema(prep_args.tools)
        decls == prep_result.function_declarations
    IN  /\ Len(decls) = Cardinality(at)
        /\ \A k \in 1..Len(decls) : decls[k].declares = prep_args.tools[Kth(at, k)].name
        /\ prep_result.tools_is_none <=> (at = {})

\* C14: one function declaration per tool with a parameter schema, in list
\* order, none for the others; and when no tool has a schema the returned
\* parameters carry no tool-use configuration at all: no tools entry and no
\* tool config.
C14_DeclarationsAndNoConfigWithoutSchema ==
  /\ DeclarationsFollowTools
  /\ (tl_op = "_prepare_chat_with_tools" /\ tl_pc = "returned"
        /\ WithSchema(prep_args.tools) = {}) =>
       /\ prep_result.tools_is_none
       /\ ~prep_result.has_tool_config

(***************************************************************************)
(* Properties of the tool-call extraction and of ToolSelection             *)
(***************************************************************************)
ExtractionWithoutRecords ==
  (tl_op = "get_tool_calls_from_response" /\ sel_args.tool_calls = <<>>) =>
    IF sel_args.error_on_no_tool_call
    THEN tl_pc = "raised" /\ sel_result.kind = "error" /\ sel_result.exc = NoToolCallError
    ELSE tl_pc = "returned" /\ sel_result.kind = "value" /\ sel_result.selections = <<>>

\* C15: without tool-call records the extraction raises when
\* error_on_no_tool_call is true and returns the empty sequence when it is
\* false; with records it returns one ToolSelection per record, in record
\* order, tool_name and tool_id the record's name and tool_kwargs the
\* record's args.
C15_OneSelectionPerRecord ==
  /\ ExtractionWithoutRecords
  /\ (tl_op = "get_tool_calls_from_response" /\ sel_args.tool_calls # <<>>) =>
       /\ tl_pc = "returned"
       /\ Len(sel_result.selections) = Len(sel_args.tool_calls)
       /\ \A i \in 1..Len(sel_args.tool_calls) :
            /\ sel_result.selections[i].tool_name = sel_args.tool_calls[i].name
            /\ sel_result.selections[i].tool_id = sel_args.tool_calls[i].name
            /\ sel_result.selections[i].tool_kwargs = sel_args.tool_calls[i].args

\* C15 as the code has it: tool_kwargs is the record's args when they are a
\* mapping, and the empty mapping when they are not (a call without
\* arguments whose args is None).
C15_SelectionKwargsValidated ==
  /\ ExtractionWithoutRecords
  /\ (tl_op = "get_tool_calls_from_response" /\ sel_args.tool_calls # <<>>) =>
       /\ tl_pc = "returned"
       /\ Len(sel_result.selections) = Len(sel_args.tool_calls)
       /\ \A i \in 1..Len(sel_args.tool_calls) :
            /\ sel_result.selections[i].tool_name = sel_args.tool_calls[i].name
            /\ sel_result.selections[i].tool_id = sel_args.tool_calls[i].name
            /\ sel_result.selections[i].tool_kwargs =
                 (IF sel_args.tool_calls[i].args.type = "dict"
                  THEN sel_args.tool_calls[i].args ELSE PyDict({}))

\* Records g (args None) then f (args {x: 1}) gave g with {} then f with {x: 1}.
C15_Witness ==
  /\ tl_op = "get_tool_calls_from_response"
  /\ sel_args.tool_calls =
       <<ToolCallRecord("g", PyNone), ToolCallRecord("f", PyDict({<<"x", "1">>}))>>
  /\ tl_pc = "returned"
  /\ sel_result.selections =
       << [tool_id |-> "g", tool_name |-> "g", tool_kwargs |-> PyDict({})],
          [tool_id |-> "f", tool_name |-> "f", tool_kwargs |-> PyDict({<<"x", "1">>})] >>

C16_WitnessRoundTrip ==
  /\ tl_op = "ToolSelection"
  /\ ts_result.given = PyDict({<<"x", "1">>})
  /\ ts_result.restored.tool_kwargs = PyDict({<<"x", "1">>})

(***************************************************************************)
(* Properties of chat / achat and of the stored generation config          *)
(***************************************************************************)
ChatCall == ch_op \in {"chat", "achat"}

ChatOver == ch_pc \in {"returned", "raised"}

LastAttempt == ch_attempts[Len(ch_attempts)]

\* The call ended as its last attempt did.
EndsAsLastAttempt ==
  ChatOver =>
    /\ ch_attempts # <<>>
    /\ ch_pc = "returned" => (LastAttempt.exc = NoExc /\ ch_result = Returned(LastAttempt.reply))
    /\ ch_pc = "raised" => (LastAttempt.exc # NoExc /\ ch_result = Raised(LastAttempt.exc))

\* C17: with max_retries zero, chat and achat run without retry wrapper and
\* call the backend once: the single attempt's failure, transient or not,
\* is what the caller gets, unchanged.
C17_ZeroRetriesSingleAttempt ==
  (ChatCall /\ sp_cfg.max_retries = 0) =>
    /\ CountIn(ch_log, {"create_retry_decorator"}) = 0
    /\ Len(ch_attempts) <= 1
    /\ CountIn(ch_log, SendCalls) = Len(ch_attempts)
    /\ ChatOver => Len(ch_attempts) = 1
    /\ EndsAsLastAttempt

\* An achat without retries met a transient failure and raised it.
C17_Witness ==
  /\ ch_op = "achat"
  /\ sp_cfg.max_retries = 0
  /\ ch_pc = "raised"
  /\ Len(ch_attempts) = 1
  /\ ch_result = Raised(Exc("ServerError", "e1"))

C18_WitnessRecovered ==
  /\ ChatCall
  /\ ch_pc = "returned"
  /\ Len(ch_attempts) = 2
  /\ ch_attempts[1].exc = Exc("ServerError", "e2")
  /\ ch_result = Returned("r1")

SchemaKeys == {"response_schema", "response_mime_type"}

\* b wins over a, key by key.
IsMergeOf(merged, a, b) ==
  /\ DOMAIN merged = (DOMAIN a) \cup (DOMAIN b)
  /\ \A k \in DOMAIN merged : merged[k] = (IF k \in DOMAIN b THEN b[k] ELSE a[k])

\* C19: whatever chat, achat, stream_chat, astream_chat and structured
\* predict calls were made, with whatever overrides and outcome, the stored
\* generation config is the one of the construction and holds no response
\* schema or MIME type; what a call sends is a merge of its own, the
\* overrides winning key by key.
C19_StoredConfigNeverChanges ==
  /\ stored_generation_config = sp_cfg.generation_config
  /\ SchemaKeys \cap DOMAIN stored_generation_config = {}
  /\ \A i \in 1..Len(ch_attempts) :
       IsMergeOf(ch_attempts[i].config, sp_cfg.generation_config, ch_overrides)
  /\ sp_sent_config # <<>> =>
       /\ SchemaKeys \subseteq DOMAIN sp_sent_config
       /\ sp_sent_config["response_schema"] = sp_output_cls
       /\ DOMAIN sp_cfg.generation_config \subseteq DOMAIN sp_sent_config

\* A native structured predict sent temperature 0.9 and the schema; the
\* stored config still says 0.1 and nothing else.
C19_Witness ==
  /\ sp_op = "structured_predict"
  /\ sp_pc = "returned"
  /\ sp_sent_config["temperature"] = "0.9"
  /\ sp_sent_config["response_schema"] = "Out"
  /\ stored_generation_config = [temperature |-> "0.1"]

\* A stream_chat with an override of another key sent both keys.
C19_WitnessChat ==
  /\ ch_op = "stream_chat"
  /\ ch_pc = "returned"
  /\ ch_attempts[1].config = [temperature |-> "0.1", max_output_tokens |-> "8"]
  /\ stored_generation_config = [temperature |-> "0.1"]

(***************************************************************************)
(* Properties of the fragment skipping                                     *)
(***************************************************************************)
SkipShapes == {"no_candidates", "no_content", "no_parts"}

\* How many of the fragments taken so far carry parts.
WithParts(frags) == Cardinality({i \in 1..Len(frags) : frags[i].shape \notin SkipShapes})

\* C20: in stream_chat and astream_chat alike, a fragment without
\* candidate, without content or without parts is passed over: no stream
\* fails, and the emissions are those of the fragments that carry parts.
C20_EmptyFragmentsSkipped ==
  \A s \in Streams :
    /\ st_pc[s] # "failed"
    /\ Len(emitted[s]) = WithParts(received[s])

\* The same for astream_chat alone, with the accumulators: after a fragment
\* to pass over they are what they were.
AsyncSkipsEmptyFragments ==
  \A s \in Streams :
    st_kind[s] = "async" =>
      /\ st_pc[s] # "failed"
      /\ Len(emitted[s]) = WithParts(received[s])
      /\ emitted[s] # <<>> =>
           /\ content[s] = emitted[s][Len(emitted[s])].content
           /\ thoughts[s] = emitted[s][Len(emitted[s])].thoughts
           /\ existing_tool_calls[s] = emitted[s][Len(emitted[s])].tool_calls
      /\ emitted[s] = <<>> =>
           (content[s] = "" /\ thoughts[s] = "" /\ existing_tool_calls[s] = <<>>)

(***************************************************************************)
(* Properties of the structured-predict events                             *)
(***************************************************************************)
StartEvents == {"LLMStructuredPredictStartEvent"}

EndEvents == {"LLMStructuredPredictEndEvent"}

StructuredCallOver ==
  /\ sp_op \in {"structured_predict", "astructured_predict"}
  /\ sp_pc \in {"returned", "raised"}

\* C21: a structured_predict / astructured_predict call that returned, under
\* either strategy, logged exactly one start event, before any backend
\* request, and exactly one end event, the last entry of its log; a call that
\* failed logged no end event.
C21_OneStartOneEndPerReturn ==
  StructuredCallOver =>
    /\ sp_pc = "returned" =>
         /\ CountIn(sp_log, StartEvents) = 1
         /\ CountIn(sp_log, EndEvents) = 1
         /\ sp_log[Len(sp_log)] \in EndEvents
         /\ \A i, j \in 1..Len(sp_log) :
              (sp_log[i] \in StartEvents /\ sp_log[j] \in GenerateCalls) => i < j
    /\ sp_pc = "raised" => CountIn(sp_log, EndEvents) = 0

\* The same for the calls delegated to the base contract (any mode but
\* DEFAULT), and for all calls the half about failures.
GenericCallsBracketedByEvents ==
  StructuredCallOver =>
    /\ (sp_cfg.mode # "DEFAULT" /\ sp_pc = "returned") =>
         /\ CountIn(sp_log, StartEvents) = 1
         /\ CountIn(sp_log, EndEvents) = 1
         /\ sp_log[Len(sp_log)] \in EndEvents
    /\ sp_pc = "raised" => CountIn(sp_log, EndEvents) = 0

(***************************************************************************)
(* Properties of the base streaming structured predict                     *)
(***************************************************************************)
InProgressEvents == {"LLMStructuredPredictInProgressEvent"}

\* The base generator has been pulled past _structured_stream_call.
GenericStreamRunning ==
  /\ sp_cfg.mode # "DEFAULT"
  /\ sp_op \in StreamingStructuredOps
  /\ sp_pc \in {"partials", "done"} \/ (sp_pc = "raised" /\ sp_result.exc \notin ProgramFailures)

\* The events of the log, the delegation entry left out.
EventsOf(log) == SubSeq(log, 2, Len(log))

\* C22: for every sequence of partials the program streams, the base
\* generator logs the start event first, then one in-progress event per
\* partial, each partial being yielded in order, and once the program is
\* exhausted one end event; it never ends with an exception.
C22_EventsFollowPartialsAndEndNormally ==
  GenericStreamRunning =>
    /\ sp_pc # "raised"
    /\ sp_yielded = sp_chunks
    /\ LET ev == EventsOf(sp_log)
           n  == Len(sp_chunks)
       IN  /\ ev[1] \in StartEvents
           /\ \A k \in 1..n : ev[1 + k] \in InProgressEvents
           /\ IF sp_pc = "done"
              THEN Len(ev) = n + 2 /\ ev[n + 2] \in EndEvents
              ELSE Len(ev) = n + 1

\* The same for a program that streams at least one partial.
NonEmptyStreamEndsWithEndEvent ==
  (GenericStreamRunning /\ sp_chunks # <<>>) =>
    /\ sp_pc # "raised"
    /\ sp_yielded = sp_chunks
    /\ sp_pc = "done" =>
         /\ Len(EventsOf(sp_log)) = Len(sp_chunks) + 2
         /\ sp_log[Len(sp_log)] \in EndEvents

(***************************************************************************)
(* Properties of the emissions of a stream                                 *)
(***************************************************************************)
HasParts(r) == r.shape \notin SkipShapes

\* The fragments that carry parts, in arrival order.
PartsOf(frags) == SelectSeq(frags, HasParts)

RECURSIVE TextOf(_, _, _)
\* The texts of the first k fragments whose thought flag is `thought`, joined.
TextOf(frags, k, thought) ==
  IF k = 0 THEN ""
  ELSE TextOf(frags, k - 1, thought)
         \o (IF frags[k].thought = thought THEN OrEmpty(frags[k].text) ELSE "")

RECURSIVE CallsOf(_, _)
\* The tool calls of the first k fragments, joined.
CallsOf(frags, k) ==
  IF k = 0 THEN <<>> ELSE CallsOf(frags, k - 1) \o frags[k].calls

\* C23: in stream_chat the fragments that carry parts produce one emission
\* each, in arrival order; the k-th has the text of the k-th such fragment as
\* delta, the texts of the unflagged fragments so far as content, the texts
\* of the thought-flagged fragments so far as thoughts, and the tool calls of
\* all fragments so far as tool calls.
C23_SyncEmissionsAccumulate ==
  \A s \in Streams :
    st_kind[s] = "sync" =>
      LET fs == PartsOf(received[s])
      IN  /\ Len(emitted[s]) = Len(fs)
          /\ \A k \in 1..Len(fs) :
               /\ emitted[s][k].delta = fs[k].text
               /\ emitted[s][k].content = TextOf(fs, k, FALSE)
               /\ emitted[s][k].thoughts = TextOf(fs, k, TRUE)
               /\ emitted[s][k].tool_calls = CallsOf(fs, k)

\* A stream_chat took text, a thought and a text with a tool call: the third
\* emission holds "ab" as content, "t" as thoughts and the call.
C23_Witness ==
  \E s \in Streams :
    /\ st_kind[s] = "sync"
    /\ received[s] = <<Frag("parts", "a", FALSE, <<>>), Frag("parts", "t", TRUE, <<>>),
                       Frag("parts", "b", FALSE, <<"f">>)>>
    /\ Len(emitted[s]) = 3
    /\ emitted[s][3] = [delta |-> "b", content |-> "ab", thoughts |-> "t", tool_calls |-> <<"f">>]
    /\ emitted[s][2].delta = "t"
    /\ emitted[s][2].content = "a"

RECURSIVE AloneEmissions(_, _)
\* What a stream that runs alone emits for the first k of its fragments that
\* carry parts.
AloneEmissions(fs, k) ==
  IF k = 0 THEN <<>>
  ELSE Append(AloneEmissions(fs, k - 1),
              [ delta      |-> fs[k].text,
                content    |-> TextOf(fs, k, FALSE),
                thoughts   |-> TextOf(fs, k, TRUE),
                tool_calls |-> CallsOf(fs, k) ])

\* C24: whatever the other stream of the adapter took in between, the
\* emissions and the accumulators of a stream are those of its own fragments
\* alone.
C24_StreamsIndependent ==
  \A s \in Streams :
    st_kind[s] # "none" =>
      LET fs == PartsOf(received[s])
      IN  /\ emitted[s] = AloneEmissions(fs, Len(fs))
          /\ content[s] = TextOf(fs, Len(fs), FALSE)
          /\ thoughts[s] = TextOf(fs, Len(fs), TRUE)
          /\ existing_tool_calls[s] = CallsOf(fs, Len(fs))

\* Two streams are open at once, a stream_chat and an astream_chat, and
\* each took fragments of its own: text and a call on one, a thought on the
\* other.
C24_Witness ==
  /\ st_pc[1] = "open" /\ st_pc[2] = "open"
  /\ st_kind[1] # st_kind[2]
  /\ Len(emitted[1]) = 2 /\ Len(emitted[2]) = 1
  /\ content[1] = "b" /\ existing_tool_calls[1] = <<"f">>
  /\ content[2] = "" /\ thoughts[2] = "t" /\ existing_tool_calls[2] = <<>>

\* C27: the tool calls held by the k-th response of a stream, read at any
\* later point of the stream, are those of its first k fragments with parts.
C27_EmittedToolCallsStable ==
  \A s \in Streams :
    \A k \in 1..Len(emitted[s]) :
      HeldToolCalls(s, k) = CallsOf(PartsOf(received[s]), k)

\* What does hold: read at its own yield the k-th response holds the calls
\* of the first k fragments, and read at any later point those of all the
\* fragments taken by then.
ToolCallsAtYieldAndLater ==
  \A s \in Streams :
    \A k \in 1..Len(emitted[s]) :
      /\ emitted[s][k].tool_calls = CallsOf(PartsOf(received[s]), k)
      /\ HeldToolCalls(s, k) = CallsOf(PartsOf(received[s]), Len(emitted[s]))

\* C29: a stream_chat and an astream_chat that took the same fragments made
\* the same emissions, and either both failed or neither.
C29_SyncAsyncEquivalent ==
  \A s, t \in Streams :
    (st_kind[s] = "sync" /\ st_kind[t] = "async" /\ received[s] = received[t]) =>
      /\ emitted[s] = emitted[t]
      /\ (st_pc[s] = "failed") = (st_pc[t] = "failed")

\* What does hold: the two agree on the emissions always, and on the outcome
\* as long as every fragment with a candidate has content and parts.
SyncAsyncAgreeOnEmissions ==
  \A s, t \in Streams :
    (st_kind[s] = "sync" /\ st_kind[t] = "async" /\ received[s] = received[t]) =>
      /\ emitted[s] = emitted[t]
      /\ (\A i \in 1..Len(received[s]) : received[s][i].shape \in {"no_candidates", "parts"}) =>
           (st_pc[s] # "failed" /\ st_pc[t] # "failed")

(***************************************************************************)
(* Properties of the messages handed to the chat primitive                 *)
(***************************************************************************)
\* The chat primitive was called in the call in progress.
ChatPrimitiveCalled ==
  /\ llm_cfg.is_chat_model
  /\ llm_op \in {"predict", "apredict", "stream", "astream"}
  /\ llm_pc \in {"called", "returned", "raised"}

\* The rendered messages as the output parser of the LLM, if any, formats them.
RenderedAsFormatted ==
  IF llm_cfg.output_parser THEN FormatMessages(llm_rendered) ELSE llm_rendered

\* C25: the messages predict, apredict, stream and astream hand to the chat
\* primitive are never an empty sequence, whatever the template rendered and
\* whatever the system prompt is; with a non-empty system prompt they are one
\* system message carrying it followed by the rendered messages in order.
C25_ChatMessagesNeverEmpty ==
  ChatPrimitiveCalled =>
    /\ llm_messages # <<>>
    /\ Truthy(llm_cfg.system_prompt) =>
         llm_messages = <<ChatMessage("system", llm_cfg.system_prompt)>> \o RenderedAsFormatted

\* What does hold: the injection with a non-empty system prompt, the
\* rendered messages handed on as they are without one, and a non-empty
\* sequence whenever the rendering or the system prompt is non-empty.
SystemPromptInjected ==
  ChatPrimitiveCalled =>
    /\ Truthy(llm_cfg.system_prompt) =>
         /\ llm_messages = <<ChatMessage("system", llm_cfg.system_prompt)>> \o RenderedAsFormatted
         /\ llm_messages # <<>>
    /\ ~Truthy(llm_cfg.system_prompt) => llm_messages = RenderedAsFormatted
    /\ llm_rendered # <<>> => llm_messages # <<>>

(***************************************************************************)
(* Properties of the native streaming structured predict                   *)
(***************************************************************************)
\* The native gen() has been pulled past generate_content_stream.
NativeStreamOpened ==
  /\ sp_cfg.mode = "DEFAULT"
  /\ sp_op \in StreamingStructuredOps
  /\ sp_pc \in {"chunks", "done"} \/ (sp_pc = "raised" /\ sp_chunks # <<>>)

\* A chunk that yields: a truthy chunk.parsed, or a candidate whose text is
\* non-empty and completes a decodable json.
Yielding(chunk) ==
  \/ chunk.parsed # NoParsed
  \/ chunk.candidates /\ chunk.text # "" /\ chunk.decodes

\* How many of the chunks taken so far yield.
YieldingCount(chunks) == Cardinality({i \in 1..Len(chunks) : Yielding(chunks[i])})

\* No chunk raises, and one partial is yielded per yielding chunk: the
\* chunks that are neither parsed nor decodable yield nothing.
NativeStreamSkipsQuietly ==
  NativeStreamOpened =>
    /\ sp_pc # "raised"
    /\ sp_result = SPStream
    /\ Len(sp_yielded) = YieldingCount(sp_chunks)

\* C26: in DEFAULT mode stream_structured_predict and
\* astream_structured_predict pass over a chunk that is neither parsed nor
\* decodable without error and without yielding, and a stream whose chunks
\* are being taken ends normally, also when it has yielded nothing.
C26_NativeStreamTerminates ==
  /\ []NativeStreamSkipsQuietly
  /\ (NativeStreamOpened /\ sp_pc = "chunks") ~> (NativeStreamOpened /\ sp_pc = "done")

\* A native stream ended normally after two chunks, one without candidates
\* and one whose text does not decode, having yielded nothing.
C26_Witness ==
  /\ NativeStreamOpened
  /\ sp_pc = "done"
  /\ sp_chunks = <<Chunk(NoParsed, FALSE, "", FALSE), Chunk(NoParsed, TRUE, "{", FALSE)>>
  /\ sp_yielded = <<>>
  /\ sp_current_json = "{"

(***************************************************************************)
(* Properties of the caller's chat history                                 *)
(***************************************************************************)
PrepareOver ==
  /\ tl_op = "_prepare_chat_with_tools"
  /\ tl_pc \in {"returned", "raised"}

\* C28: after _prepare_chat_with_tools the caller's chat_history is what it
\* was before the call, and a user message is in the returned messages only.
C28_ChatHistoryUnchanged ==
  PrepareOver => chat_history = prep_args.history_before

\* What does hold: the history is unchanged by a call that is given no
\* history, an empty one or no user message; given a non-empty history and a
\* user message the call appends the message to the caller's list, which is
\* the list it returns.
HistoryGrowsByUserMessage ==
  (PrepareOver /\ tl_pc = "returned") =>
    LET before == prep_args.history_before
        added  == IF prep_args.user_msg # None
                  THEN <<ChatMessage("user", prep_args.user_msg)>> ELSE <<>>
    IN  IF prep_args.history_given /\ before # <<>>
        THEN /\ chat_history = before \o added
             /\ prep_result.messages = chat_history
        ELSE /\ chat_history = before
             /\ prep_result.messages = added

====
